---- MODULE Spec2Model ----
(***************************************************************************)
(* Model of the resume parsing backend of RS-Mini-Project:                 *)
(*   backend/src/Parse_resume.py   hybrid PDF parser                       *)
(*   backend/src/extract_tech.py   skill token extractor                   *)
(*   backend/routes/recommender.py resume_parser endpoint                  *)
(*                                                                         *)
(* Strings are sequences of one-character strings, so that strip, len,     *)
(* regular expressions and concatenation are computed, not assumed.        *)
(***************************************************************************)
EXTENDS Integers, Sequences, FiniteSets, TLC

VARIABLES
    \* _bbox_overlap(bbox1, bbox2, overlap_threshold) and its return value
    bbox1, bbox2, overlap_threshold, overlap_result,
    \* _is_valid_table(cleaned_data) and its return value
    cleaned_data, valid_result,
    \* the uploaded PDF as the two libraries see it (the input of a request)
    pdf,
    \* resume_parser: the temporary file exists on disk; the HTTP response
    temp_exists, response,
    \* extract_from_pdf: the returned list
    skills,
    \* extract_tech.STOPWORDS, the module global that the import of extract_tech
    \* binds (lines 22-41); {} while the module is not imported
    STOPWORDS,
    \* parse_document_hybrid and the two extractors: their locals
    page_num, page_tables, total_tables, page_text_blocks, total_text_blocks,
    total_pages, all_content, result,
    \* the exception in flight ("" for none) and the warnings printed so far
    exc, log,
    \* extract_skills_from_text(text) called on its own: its argument (the
    \* list it returns goes to skills)
    in_text,
    \* the page loop body of extract_text_with_pymupdf on its own: doc[page_num],
    \* page_tables.get(page_num, []) and the text_blocks it collects
    in_page, in_tables_on_page, out_text_blocks,
    \* merge_page_content(page_num, text_blocks, tables) called on its own and
    \* the list it returns
    in_page_num, in_text_blocks, in_tables, out_page_content,
    \* lines 128-178 of extract_tables_with_pdfplumber for one detected table:
    \* the table, the locals normalized_data and table_markdown and the list
    \* `tables`
    in_table, out_normalized_data, table_markdown, out_tables,
    \* _create_clean_markdown_table(data) called on its own: its argument (the
    \* text it returns goes to table_markdown)
    in_data,
    \* the scan loop of extract_skills_from_text (lines 53-97): lines, i (as the
    \* 1-based index of the next line) and candidates
    sc_lines, sc_i, sc_candidates,
    \* position of the running call
    pc

bboxVars == <<bbox1, bbox2, overlap_threshold, overlap_result>>
tableVars == <<cleaned_data, valid_result>>
requestVars == <<temp_exists, response, skills>>
parseVars == <<page_num, page_tables, total_tables, page_text_blocks,
               total_text_blocks, total_pages, all_content, result>>
mainVars == <<pdf, STOPWORDS, requestVars, parseVars, exc, log>>
stepVars == <<in_table, out_normalized_data, table_markdown, out_tables, in_data,
              sc_lines, sc_i, sc_candidates>>
harnessVars == <<in_text, in_page, in_tables_on_page, out_text_blocks,
                 in_page_num, in_text_blocks, in_tables, out_page_content, stepVars>>
vars == <<bboxVars, tableVars, mainVars, harnessVars, pc>>

\* The empty dict
EmptyDict == [k \in {} |-> <<>>]

\* The value of result and response before they are assigned
NoResult == [parsing_method |-> "unset"]
NoResponse == [status |-> 0]

\* The main variables while no request runs (the pure-function harnesses)
MainIdle ==
    /\ pdf = [name |-> "", pages |-> <<>>]
    /\ temp_exists = FALSE /\ response = NoResponse /\ skills = <<>>
    /\ page_num = 0 /\ page_tables = EmptyDict /\ total_tables = 0
    /\ page_text_blocks = EmptyDict /\ total_text_blocks = 0
    /\ total_pages = 0 /\ all_content = <<>> /\ result = NoResult
    /\ exc = "" /\ log = {}

\* The variables of the step-wise calls while none of them runs
StepIdle ==
    /\ in_table = [data |-> <<>>, bbox |-> <<>>, extract_raises |-> FALSE]
    /\ out_normalized_data = <<>>
    /\ table_markdown = <<>>
    /\ out_tables = <<>>
    /\ in_data = <<>>
    /\ sc_lines = <<>>
    /\ sc_i = 1
    /\ sc_candidates = <<>>

\* The variables of the calls of single functions while none of them runs
HarnessIdle ==
    /\ StepIdle
    /\ in_text = <<>>
    /\ in_page = [blocks |-> <<>>]
    /\ in_tables_on_page = <<>>
    /\ out_text_blocks = <<>>
    /\ in_page_num = 0
    /\ in_text_blocks = <<>>
    /\ in_tables = <<>>
    /\ out_page_content = <<>>

Max2(a, b) == IF a >= b THEN a ELSE b
Min2(a, b) == IF a <= b THEN a ELSE b

(***************************************************************************)
(* Strings                                                                 *)
(***************************************************************************)

\* c * n
Rep(c, n) == [i \in 1..n |-> c]

\* str.isspace() for the characters of the model: what str.strip() removes,
\* \s matches and str.split() separates on
IsSpaceCh(c) == c \in {" ", "\t", "\n", "\r", "\f"}

RECURSIVE LeadingSpaces(_, _)
\* number of whitespace characters s starts with, counted from index i
LeadingSpaces(s, i) ==
    IF i > Len(s) THEN 0
    ELSE IF IsSpaceCh(s[i]) THEN 1 + LeadingSpaces(s, i + 1) ELSE 0

RECURSIVE TrailingSpaces(_, _)
\* number of whitespace characters s ends with, counted down from index i
TrailingSpaces(s, i) ==
    IF i < 1 THEN 0
    ELSE IF IsSpaceCh(s[i]) THEN 1 + TrailingSpaces(s, i - 1) ELSE 0

\* str.strip()
strip(s) ==
    LET lead == LeadingSpaces(s, 1)
    IN  IF lead = Len(s) THEN <<>>
        ELSE SubSeq(s, lead + 1, Len(s) - TrailingSpaces(s, Len(s)))

\* Python truthiness of a string or list: `if s`
Truthy(s) == s # <<>>

\* Characters outside ASCII are written by their code point.
Bullet == "U+2022"
FullwidthColon == "U+FF1A"
ReplacementChar == "U+FFFD"
ControlChar == "U+0001"

UpperLetters ==
    <<"A", "B", "C", "D", "E", "F", "G", "H", "I", "J", "K", "L", "M",
      "N", "O", "P", "Q", "R", "S", "T", "U", "V", "W", "X", "Y", "Z">>
LowerLetters ==
    <<"a", "b", "c", "d", "e", "f", "g", "h", "i", "j", "k", "l", "m",
      "n", "o", "p", "q", "r", "s", "t", "u", "v", "w", "x", "y", "z">>
UpperSet == {UpperLetters[i] : i \in 1..26}
LowerSet == {LowerLetters[i] : i \in 1..26}
DigitChars == <<"0", "1", "2", "3", "4", "5", "6", "7", "8", "9">>
DigitSet == {DigitChars[i] : i \in 1..10}

\* [A-Za-z]
IsLetter(c) == c \in UpperSet \cup LowerSet
\* \d
IsDigit(c) == c \in DigitSet

\* str.lower() of one character
LowerCh(c) ==
    IF c \in UpperSet THEN LowerLetters[CHOOSE i \in 1..26 : UpperLetters[i] = c]
    ELSE c

\* str.lower()
lower(s) == [i \in 1..Len(s) |-> LowerCh(s[i])]

\* The elements of s at the indices that satisfy Keep, in order
SelectIdx(s, Keep(_)) ==
    LET K == {i \in 1..Len(s) : Keep(i)}
    IN  [k \in 1..Cardinality(K) |->
            s[CHOOSE i \in K : Cardinality({j \in K : j <= i}) = k]]

\* re.sub(r'\s+', ' ', s)
collapse_ws(s) ==
    LET blanked == [i \in 1..Len(s) |-> IF IsSpaceCh(s[i]) THEN " " ELSE s[i]]
        Keep(i) == ~(IsSpaceCh(s[i]) /\ i > 1 /\ IsSpaceCh(s[i - 1]))
    IN  SelectIdx(blanked, Keep)

\* [\x20-\x7E\u00A0-\u024F\u1E00-\u1EFF]: every character of the model but
\* the control characters and the code points named above
InLatinRanges(c) ==
    c \notin {"\t", "\n", "\r", "\f", Bullet, FullwidthColon, ReplacementChar,
              ControlChar}

\* re.sub(r'[^\x20-\x7E\u00A0-\u024F\u1E00-\u1EFF]', '', s)
drop_non_latin(s) == SelectSeq(s, InLatinRanges)

RECURSIVE Flatten(_)
\* ''.join(parts)
Flatten(parts) ==
    IF parts = <<>> THEN <<>> ELSE Head(parts) \o Flatten(Tail(parts))

RECURSIVE Join(_, _)
\* sep.join(parts)
Join(sep, parts) ==
    IF parts = <<>> THEN <<>>
    ELSE IF Len(parts) = 1 THEN parts[1]
    ELSE parts[1] \o sep \o Join(sep, Tail(parts))

RECURSIVE Decimal(_)
\* str(n) for n >= 0
Decimal(n) ==
    IF n < 10 THEN <<DigitChars[n + 1]>>
    ELSE Decimal(n \div 10) \o <<DigitChars[(n % 10) + 1]>>


\* Number of indices of the sequence q whose element satisfies Test
CountIf(q, Test(_)) == Cardinality({i \in 1..Len(q) : Test(q[i])})

(***************************************************************************)
(* BoundingBox geometry: Parse_resume._bbox_overlap                        *)
(***************************************************************************)

\* Largest coordinate of the boxes the overlap harness enumerates.
MaxCoord == 2

\* A threshold n/d is the pair <<n, d>> with d > 0 (0.5 is <<1, 2>>).
Thresholds == {<<0, 1>>, <<1, 2>>, <<1, 1>>, <<3, 2>>, <<-1, 2>>}

\* overlap_ratio >= overlap_threshold, for overlap_ratio = inter / smaller
RatioAtLeast(inter, smaller, t) == inter * t[2] >= t[1] * smaller

\* overlap_ratio > overlap_threshold
RatioAbove(inter, smaller, t) == inter * t[2] > t[1] * smaller

\* Mutant: the comparison of the ratio with the threshold is strict.
_bbox_overlap_strict(b1, b2, t) ==
    IF b1 = <<>> \/ b2 = <<>> \/ Len(b1) < 4 \/ Len(b2) < 4 THEN FALSE
    ELSE
        LET x_overlap == Max2(0, Min2(b1[3], b2[3]) - Max2(b1[1], b2[1]))
            y_overlap == Max2(0, Min2(b1[4], b2[4]) - Max2(b1[2], b2[2]))
            area1 == (b1[3] - b1[1]) * (b1[4] - b1[2])
            area2 == (b2[3] - b2[1]) * (b2[4] - b2[2])
        IN  IF x_overlap <= 0 \/ y_overlap <= 0 THEN FALSE
            ELSE IF area1 <= 0 \/ area2 <= 0 THEN FALSE
            ELSE RatioAbove(x_overlap * y_overlap, Min2(area1, area2), t)

\* Mutant: the intersection is related to the larger of the two areas.
_bbox_overlap_larger(b1, b2, t) ==
    IF b1 = <<>> \/ b2 = <<>> \/ Len(b1) < 4 \/ Len(b2) < 4 THEN FALSE
    ELSE
        LET x_overlap == Max2(0, Min2(b1[3], b2[3]) - Max2(b1[1], b2[1]))
            y_overlap == Max2(0, Min2(b1[4], b2[4]) - Max2(b1[2], b2[2]))
            area1 == (b1[3] - b1[1]) * (b1[4] - b1[2])
            area2 == (b2[3] - b2[1]) * (b2[4] - b2[2])
        IN  IF x_overlap <= 0 \/ y_overlap <= 0 THEN FALSE
            ELSE IF area1 <= 0 \/ area2 <= 0 THEN FALSE
            ELSE RatioAtLeast(x_overlap * y_overlap, Max2(area1, area2), t)

\* Mutant: any shared area counts as an overlap, whatever the threshold.
_bbox_overlap_any_shared_area(b1, b2, t) ==
    IF b1 = <<>> \/ b2 = <<>> \/ Len(b1) < 4 \/ Len(b2) < 4 THEN FALSE
    ELSE
        LET x_overlap == Max2(0, Min2(b1[3], b2[3]) - Max2(b1[1], b2[1]))
            y_overlap == Max2(0, Min2(b1[4], b2[4]) - Max2(b1[2], b2[2]))
            area1 == (b1[3] - b1[1]) * (b1[4] - b1[2])
            area2 == (b2[3] - b2[1]) * (b2[4] - b2[2])
        IN  IF x_overlap <= 0 \/ y_overlap <= 0 THEN FALSE
            ELSE IF area1 <= 0 \/ area2 <= 0 THEN FALSE
            ELSE TRUE

\* A box is the tuple <<x0, y0, x1, y1>> (Python index 0..3 is 1..4 here).
_bbox_overlap(b1, b2, t) ==
    IF b1 = <<>> \/ b2 = <<>> \/ Len(b1) < 4 \/ Len(b2) < 4 THEN FALSE
    ELSE
        LET x_overlap == Max2(0, Min2(b1[3], b2[3]) - Max2(b1[1], b2[1]))
            y_overlap == Max2(0, Min2(b1[4], b2[4]) - Max2(b1[2], b2[2]))
            intersection_area == x_overlap * y_overlap
            area1 == (b1[3] - b1[1]) * (b1[4] - b1[2])
            area2 == (b2[3] - b2[1]) * (b2[4] - b2[2])
            smaller_area == Min2(area1, area2)
        IN  IF x_overlap <= 0 \/ y_overlap <= 0 THEN FALSE
            ELSE IF area1 <= 0 \/ area2 <= 0 THEN FALSE
            ELSE RatioAtLeast(intersection_area, smaller_area, t)

Coords == 0..MaxCoord
\* Every 4-tuple of coordinates, the inverted ones (x1 < x0) included, and the
\* empty and the truncated box that the guard of line 321 answers.
Boxes == (Coords \X Coords \X Coords \X Coords) \cup {<<>>, <<0, 0, 1>>}

BBoxInit ==
    /\ bbox1 \in Boxes
    /\ bbox2 \in Boxes
    /\ overlap_threshold \in Thresholds
    /\ overlap_result = FALSE
    /\ pc = "bbox_call"
    /\ cleaned_data = <<>>
    /\ valid_result = FALSE
    /\ STOPWORDS = {}
    /\ MainIdle
    /\ HarnessIdle

BBoxOverlap ==
    /\ pc = "bbox_call"
    /\ pc' = "bbox_return"
    /\ overlap_result' = _bbox_overlap(bbox1, bbox2, overlap_threshold)
    /\ UNCHANGED <<bbox1, bbox2, overlap_threshold, tableVars, mainVars, harnessVars>>

BBoxNext == BBoxOverlap

SpecBBox == BBoxInit /\ [][BBoxNext]_vars

\* The unit squares of the coordinate grid that lie inside box b
UnitSquares(b) ==
    {sq \in (0..MaxCoord) \X (0..MaxCoord) :
        b[1] <= sq[1] /\ sq[1] < b[3] /\ b[2] <= sq[2] /\ sq[2] < b[4]}

SharedArea(a, b) == Cardinality(UnitSquares(a) \cap UnitSquares(b))

BothBoxes == Len(bbox1) = 4 /\ Len(bbox2) = 4

\* C9: for all boxes a, b and every threshold, _bbox_overlap is false when a box
\* has zero area or the rectangles do not intersect, and otherwise it is
\* (intersection area / min(area a, area b) >= threshold).
C9_OverlapIsRatioOfSmaller ==
    (pc = "bbox_return" /\ BothBoxes) =>
        LET areaA == Cardinality(UnitSquares(bbox1))
            areaB == Cardinality(UnitSquares(bbox2))
            inter == SharedArea(bbox1, bbox2)
        IN  overlap_result =
                IF areaA = 0 \/ areaB = 0 \/ inter = 0 THEN FALSE
                ELSE inter * overlap_threshold[2]
                        >= overlap_threshold[1] * Min2(areaA, areaB)

\* C9 witness: two different boxes whose intersection is exactly half of the
\* smaller one are reported as overlapping at threshold 1/2.
C9_Witness ==
    /\ pc = "bbox_return" /\ BothBoxes
    /\ bbox1 # bbox2
    /\ overlap_threshold = <<1, 2>>
    /\ 2 * SharedArea(bbox1, bbox2)
         = Min2(Cardinality(UnitSquares(bbox1)), Cardinality(UnitSquares(bbox2)))
    /\ overlap_result = TRUE

\* C10: a box of positive area overlaps itself at every threshold t <= 1, and
\* two boxes that share no area overlap at no threshold.
C10_SelfOverlapAndDisjoint ==
    (pc = "bbox_return" /\ BothBoxes) =>
        /\ (bbox1 = bbox2 /\ Cardinality(UnitSquares(bbox1)) > 0
                /\ overlap_threshold[1] <= overlap_threshold[2])
              => overlap_result = TRUE
        /\ SharedArea(bbox1, bbox2) = 0 => overlap_result = FALSE

\* C10 witness: a box of positive area compared with itself at threshold 1.
C10_Witness ==
    /\ pc = "bbox_return" /\ BothBoxes
    /\ bbox1 = bbox2
    /\ Cardinality(UnitSquares(bbox1)) > 0
    /\ overlap_threshold = <<1, 1>>
    /\ overlap_result = TRUE

(***************************************************************************)
(* Table Region Validator: Parse_resume._is_valid_table                    *)
(***************************************************************************)

\* Program constants of _is_valid_table (percentages are the float literals
\* 0.5, 0.6 and 0.7 times 100; a ratio a/b is compared as 100*a with pct*b).
MinTableRows == 3
MaxRowLengthKinds == 2
MinTableCols == 2
MinMultiCells == 2
MultiCellMinPct == 50
ListFirstCellLen == 50
ListOtherCellsMax == 1
ListPatternMaxPct == 60
LongTextLen == 100
LongTextMaxPct == 70

\* `cell and cell.strip()`
NonBlank(cell) == Truthy(cell) /\ Truthy(strip(cell))

\* non_empty_cells = sum(1 for cell in row if cell and cell.strip())
non_empty_cells(row) == CountIf(row, NonBlank)

\* Mutant: a row is a list row only when no other cell is present at all.
list_pattern_no_others(row) ==
    /\ Len(row) >= 2
    /\ LET first_cell == IF Truthy(row[1]) THEN strip(row[1]) ELSE <<>>
           other_cells == {i \in 2..Len(row) : Truthy(row[i])}
       IN  Len(first_cell) > ListFirstCellLen
           /\ Cardinality(other_cells) < ListOtherCellsMax

\* Lines 67-73: the row follows the list pattern
list_pattern(row) ==
    /\ Len(row) >= 2
    /\ LET first_cell == IF Truthy(row[1]) THEN strip(row[1]) ELSE <<>>
           \* other_cells = [cell.strip() for cell in row[1:] if cell]
           other_cells == {i \in 2..Len(row) : Truthy(row[i])}
       IN  Len(first_cell) > ListFirstCellLen
           /\ Cardinality(other_cells) <= ListOtherCellsMax

\* Lines 80-87: the non-blank cells of the grid, as <<row, column>> indices
CellIndices(grid) ==
    UNION {{<<r, c>> : c \in 1..Len(grid[r])} : r \in 1..Len(grid)}

total_cells(grid) ==
    {rc \in CellIndices(grid) : NonBlank(grid[rc[1]][rc[2]])}

long_text_cells(grid) ==
    {rc \in total_cells(grid) : Len(strip(grid[rc[1]][rc[2]])) > LongTextLen}

\* Mutant: rows with too few filled cells are tolerated up to one half more.
too_few_multi_cell_rows_lenient(grid) ==
    LET multi_cell_rows ==
            Cardinality({i \in 1..Len(grid) :
                            non_empty_cells(grid[i]) >= MinMultiCells})
    IN  100 * multi_cell_rows < (MultiCellMinPct - 25) * Len(grid)

\* Lines 54-61: multi_cell_rows / len(cleaned_data) < 0.5
too_few_multi_cell_rows(grid) ==
    LET multi_cell_rows ==
            Cardinality({i \in 1..Len(grid) :
                            non_empty_cells(grid[i]) >= MinMultiCells})
    IN  100 * multi_cell_rows < MultiCellMinPct * Len(grid)

\* Lines 65-76: list_pattern_count / len(cleaned_data) > 0.6
too_many_list_rows(grid) ==
    LET list_pattern_count ==
            Cardinality({i \in 1..Len(grid) : list_pattern(grid[i])})
    IN  100 * list_pattern_count > ListPatternMaxPct * Len(grid)

\* Lines 80-90: total_cells > 0 and long_text_cells / total_cells > 0.7
too_many_long_cells(grid) ==
    /\ Cardinality(total_cells(grid)) > 0
    /\ 100 * Cardinality(long_text_cells(grid))
          > LongTextMaxPct * Cardinality(total_cells(grid))

\* The validator without the row-count rule of lines 39-40 changed: one row
\* fewer is enough
_is_valid_table_from_two_rows(grid) ==
    IF Len(grid) < MinTableRows - 1 THEN FALSE
    ELSE
        LET lengths == {Len(grid[i]) : i \in 1..Len(grid)}
            max_cols == CHOOSE m \in lengths : \A k \in lengths : k <= m
        IN  IF Cardinality(lengths) > MaxRowLengthKinds THEN FALSE
            ELSE IF max_cols < MinTableCols THEN FALSE
            ELSE IF too_few_multi_cell_rows(grid) THEN FALSE
            ELSE IF too_many_list_rows(grid) THEN FALSE
            ELSE IF too_many_long_cells(grid) THEN FALSE
            ELSE TRUE

_is_valid_table(grid) ==
    IF Len(grid) < MinTableRows THEN FALSE
    ELSE
        LET row_lengths == [i \in 1..Len(grid) |-> Len(grid[i])]
            lengths == {row_lengths[i] : i \in 1..Len(grid)}
            max_cols == CHOOSE m \in lengths : \A k \in lengths : k <= m
        IN  IF Cardinality(lengths) > MaxRowLengthKinds THEN FALSE
            ELSE IF max_cols < MinTableCols THEN FALSE
            ELSE IF too_few_multi_cell_rows(grid) THEN FALSE
            ELSE IF too_many_list_rows(grid) THEN FALSE
            ELSE IF too_many_long_cells(grid) THEN FALSE
            ELSE TRUE

\* Cells of the grids the validator harness enumerates
CellEmpty == <<>>
CellBlank == <<" ">>
CellShort == <<"x">>
Cell50 == Rep("a", ListFirstCellLen)
Cell51 == Rep("a", ListFirstCellLen + 1)
Cell101 == Rep("a", LongTextLen + 1)

\* Largest number of copies of one row in an enumerated grid
MaxRep == 7

RowKinds ==
    {<<>>, <<CellShort>>, <<CellEmpty>>, <<Cell101>>}
    \cup ({CellEmpty, CellShort, Cell50, Cell51, Cell101}
            \X {CellEmpty, CellBlank, CellShort, Cell101})
    \cup {<<CellShort, CellShort, CellShort>>, <<Cell51, CellShort, CellBlank>>,
          <<Cell51, CellShort, CellShort>>, <<Cell51, CellEmpty, CellEmpty>>,
          <<Cell101, CellEmpty, CellEmpty>>, <<CellShort, CellEmpty, CellEmpty>>}

\* Grids of up to MaxRep copies of one row followed by up to MaxRep copies of
\* another, and every grid of three rows (three row lengths can occur there).
Grids ==
    {Rep(r1, n1) \o Rep(r2, n2) :
        r1 \in RowKinds, r2 \in RowKinds, n1 \in 0..MaxRep, n2 \in 0..MaxRep}
    \cup (RowKinds \X RowKinds \X RowKinds)

TableInit ==
    /\ cleaned_data \in Grids
    /\ valid_result = FALSE
    /\ pc = "valid_call"
    /\ bbox1 = <<>>
    /\ bbox2 = <<>>
    /\ overlap_threshold = <<1, 2>>
    /\ overlap_result = FALSE
    /\ STOPWORDS = {}
    /\ MainIdle
    /\ HarnessIdle

IsValidTable ==
    /\ pc = "valid_call"
    /\ pc' = "valid_return"
    /\ valid_result' = _is_valid_table(cleaned_data)
    /\ UNCHANGED <<cleaned_data, bboxVars, mainVars, harnessVars>>

TableNext == IsValidTable

SpecTable == TableInit /\ [][TableNext]_vars

\* The statements of the validator's rules, over the characters of the cells.
\* A cell is filled when it holds a character that is not whitespace; its
\* text length is the number of positions from its first to its last such
\* character.
Filled(cell) == \E i \in 1..Len(cell) : ~IsSpaceCh(cell[i])

TextLength(cell) ==
    Cardinality({i \in 1..Len(cell) :
                    /\ \E j \in 1..i : ~IsSpaceCh(cell[j])
                    /\ \E j \in i..Len(cell) : ~IsSpaceCh(cell[j])})

RECURSIVE SumOver(_, _)
\* sum of the numbers f[i] over the finite index set S
SumOver(f, S) ==
    IF S = {} THEN 0
    ELSE LET i == CHOOSE i \in S : TRUE IN f[i] + SumOver(f, S \ {i})

Rows(grid) == 1..Len(grid)
FilledCount(row) == SumOver([i \in 1..Len(row) |-> IF Filled(row[i]) THEN 1 ELSE 0],
                            1..Len(row))

\* A row is list-like when it has at least 2 cells, its first cell exceeds 50
\* characters and at most one of its other cells is a non-empty string.
ListLike(row) ==
    /\ Len(row) >= 2
    /\ TextLength(row[1]) > 50
    /\ \A i, j \in 2..Len(row) : (row[i] # <<>> /\ row[j] # <<>>) => i = j

ListLikeCount(grid) ==
    SumOver([r \in Rows(grid) |-> IF ListLike(grid[r]) THEN 1 ELSE 0], Rows(grid))

FiveRules(grid) ==
    LET n == Len(grid)
        dense == SumOver([r \in Rows(grid) |->
                            IF FilledCount(grid[r]) >= 2 THEN 1 ELSE 0], Rows(grid))
        filled == SumOver([r \in Rows(grid) |-> FilledCount(grid[r])], Rows(grid))
        long == SumOver([r \in Rows(grid) |->
                    SumOver([c \in 1..Len(grid[r]) |->
                                IF TextLength(grid[r][c]) > 100 THEN 1 ELSE 0],
                            1..Len(grid[r]))], Rows(grid))
    IN  /\ \A a, b, c \in Rows(grid) :
              Len(grid[a]) = Len(grid[b]) \/ Len(grid[a]) = Len(grid[c])
                \/ Len(grid[b]) = Len(grid[c])
        /\ \E r \in Rows(grid) : Len(grid[r]) >= 2
        /\ 2 * dense >= n
        /\ 5 * ListLikeCount(grid) <= 3 * n
        /\ 10 * long <= 7 * filled

\* C7: _is_valid_table returns true exactly when the grid has at least 3 rows
\* and passes all five rules: at most 2 distinct row lengths, a row of at least
\* 2 cells, at least 50% of the rows with 2 or more filled cells, at most 60%
\* list-like rows, at most 70% of the filled cells longer than 100 characters.
C7_ValidIffFiveRules ==
    pc = "valid_return" =>
        (valid_result <=> (Len(cleaned_data) >= 3 /\ FiveRules(cleaned_data)))

\* C7 witness: a 4x3 grid of short filled cells is accepted.
C7_Witness ==
    /\ pc = "valid_return"
    /\ cleaned_data = Rep(<<CellShort, CellShort, CellShort>>, 4)
    /\ valid_result = TRUE

\* C8: a row of at least 2 cells is list-like exactly when its first cell exceeds
\* 50 characters and at most one other cell is non-empty, and every grid in
\* which more than 60% of the rows are list-like is rejected.
C8_ListPatternRejected ==
    pc = "valid_return" =>
        /\ \A r \in Rows(cleaned_data) :
              list_pattern(cleaned_data[r]) <=> ListLike(cleaned_data[r])
        /\ 5 * ListLikeCount(cleaned_data) > 3 * Len(cleaned_data)
              => valid_result = FALSE

\* C8 witness: 7 of 10 rows of equal length are list-like and have two filled
\* cells each, so that only the list rule can reject the grid, and it does.
C8_Witness ==
    /\ pc = "valid_return"
    /\ cleaned_data = Rep(<<Cell51, CellShort>>, 7) \o Rep(<<CellShort, CellShort>>, 3)
    /\ ListLikeCount(cleaned_data) = 7
    /\ valid_result = FALSE

(***************************************************************************)
(* Table extraction: Parse_resume.extract_tables_with_pdfplumber and       *)
(* _create_clean_markdown_table                                            *)
(***************************************************************************)

\* A cell of table.extract() that is None
NoneCell == <<"<None>">>

\* Lines 139-142: the cleaned text of one raw cell
clean_cell(cell) ==
    LET cell_str == IF cell # NoneCell THEN strip(cell) ELSE <<>>
    IN  drop_non_latin(collapse_ws(cell_str))

\* Line 136: row and any(cell and str(cell).strip() for cell in row
\*                        if cell is not None)
row_has_text(row) ==
    /\ Truthy(row)
    /\ \E i \in 1..Len(row) :
          row[i] # NoneCell /\ Truthy(row[i]) /\ Truthy(strip(row[i]))

\* Lines 134-145: cleaned_data of a raw table
clean_table_data(table_data) ==
    LET cleaned_row(row) == [i \in 1..Len(row) |-> clean_cell(row[i])]
        Keep(r) ==
            /\ row_has_text(table_data[r])
            /\ \E i \in 1..Len(table_data[r]) :
                  Truthy(cleaned_row(table_data[r])[i])
    IN  SelectIdx([r \in 1..Len(table_data) |-> cleaned_row(table_data[r])], Keep)

\* max(len(row) for row in cleaned_data)
max_cols_of(grid) ==
    LET lengths == {Len(grid[i]) : i \in 1..Len(grid)}
    IN  CHOOSE m \in lengths : \A k \in lengths : k <= m

\* Lines 153-158 without the padding of line 157
normalize_rows_unpadded(grid) == grid

\* Lines 153-158: every row padded with "" to max_cols
normalize_rows(grid) ==
    LET max_cols == max_cols_of(grid)
    IN  [r \in 1..Len(grid) |->
            [c \in 1..max_cols |-> IF c <= Len(grid[r]) THEN grid[r][c] ELSE <<>>]]

\* "| " + " | ".join(cells) + " |"
table_line(cells) == <<"|", " ">> \o Join(<<" ", "|", " ">>, cells) \o <<" ", "|">>

\* Parse_resume.py lines 188-226: the header cells are stripped (lines 200 and
\* 209), the data cells stripped and their white space collapsed (line 222)
_create_clean_markdown_table(data) ==
    IF data = <<>> \/ Len(data) < 2 THEN <<>>
    ELSE
        LET headers == data[1]
            rows == Tail(data)
            clean_headers ==
                [i \in 1..Len(headers) |->
                    LET header_str == IF Truthy(headers[i]) THEN strip(headers[i])
                                      ELSE <<>>
                    IN  IF ~Truthy(header_str)
                        THEN <<"C", "o", "l", "_">> \o Decimal(i)
                        ELSE header_str]
            header_cells == [i \in 1..Len(headers) |-> strip(clean_headers[i])]
            separator_cells ==
                [i \in 1..Len(headers) |-> Rep("-", Max2(3, Len(clean_headers[i])))]
            data_line(row) ==
                table_line([c \in 1..Len(row) |->
                    collapse_ws(IF Truthy(row[c]) THEN strip(row[c]) ELSE <<>>)])
            table_lines ==
                <<table_line(header_cells), table_line(separator_cells)>>
                \o [r \in 1..Len(rows) |-> data_line(rows[r])]
        IN  Join(<<"\n">>, table_lines)

\* Lines 166-174: the dict appended for an accepted table
table_dict(cleaned, bbox) ==
    LET normalized_data == normalize_rows(cleaned)
    IN  [content |-> _create_clean_markdown_table(normalized_data),
         type |-> "table",
         bbox |-> bbox,
         y_position |-> IF Truthy(bbox) THEN bbox[2] ELSE 0,
         rows |-> Len(normalized_data),
         cols |-> max_cols_of(cleaned),
         raw_data |-> normalized_data]

\* Lines 128-178 for one detected table: the list of dicts it adds to `tables`
\* (empty when table.extract() raises, which line 176 catches, when a row
\* count gate fails or when the validator rejects the grid).
tables_of_candidate(table) ==
    IF table.extract_raises THEN <<>>
    ELSE
        LET table_data == table.data
        IN  IF ~(Truthy(table_data) /\ Len(table_data) >= 2) THEN <<>>
            ELSE
                LET cleaned == clean_table_data(table_data)
                IN  IF Len(cleaned) < 2 THEN <<>>
                    ELSE IF ~_is_valid_table(cleaned) THEN <<>>
                    ELSE <<table_dict(cleaned, table.bbox)>>

\* Lines 176-178: the warnings printed for the tables of one page (the page
\* number of the message is left out)
table_warnings_of(page) ==
    IF \E t \in 1..Len(page.tables) : page.tables[t].extract_raises
    THEN {"Table processing error on page N"}
    ELSE {}

\* Lines 114-178: `tables` of one page
page_tables_of(page) ==
    Flatten([t \in 1..Len(page.tables) |-> tables_of_candidate(page.tables[t])])

(***************************************************************************)
(* Text extraction: Parse_resume.extract_text_with_pymupdf                 *)
(***************************************************************************)

\* Program constants of the text extractor
BoldFlag == 16
HeadingFontSize == 14

\* The threshold 0.5 of line 285
TableOverlapThreshold == <<1, 2>>

\* Lines 262-266: line_text of one line of spans
line_text_of(line) ==
    Flatten([k \in 1..Len(line) |->
                IF Truthy(strip(line[k].text)) THEN strip(line[k].text) \o <<" ">>
                ELSE <<>>])

\* Lines 257-278: block_text of a block
block_text_of(block) ==
    Flatten([l \in 1..Len(block.lines) |->
                IF Truthy(strip(line_text_of(block.lines[l])))
                THEN strip(line_text_of(block.lines[l])) \o <<" ">>
                ELSE <<>>])

\* The spans that lines 265-275 look at: those with text after strip()
inked_spans(block) ==
    {lk \in UNION {{<<l, k>> : k \in 1..Len(block.lines[l])} :
                        l \in 1..Len(block.lines)} :
        Truthy(strip(block.lines[lk[1]][lk[2]].text))}

\* Mutant: the role is derived from the font size alone.
content_type_by_size(is_bold, size_sum, size_count) ==
    IF size_sum > HeadingFontSize * size_count THEN "heading"
    ELSE IF is_bold THEN "subheading"
    ELSE "text"

\* Lines 293-297, for avg_font_size = size_sum / size_count
content_type_of(is_bold, size_sum, size_count) ==
    IF is_bold /\ size_sum > HeadingFontSize * size_count THEN "heading"
    ELSE IF is_bold THEN "subheading"
    ELSE "text"

\* Lines 255-307 for one block: the list of dicts it adds to text_blocks.
\* font_size is the mean of the span sizes, kept as <<sum, count>>.
text_dicts_of_block(block, block_num, table_bboxes) ==
    IF ~block.has_lines THEN <<>>
    ELSE
        LET block_text == block_text_of(block)
            spans == inked_spans(block)
            is_bold ==
                \E lk \in spans :
                    (block.lines[lk[1]][lk[2]].flags \div BoldFlag) % 2 = 1
            sizes == [lk \in spans |-> block.lines[lk[1]][lk[2]].size]
            size_sum == IF spans = {} THEN 12
                        ELSE LET RECURSIVE Sum(_)
                                 Sum(S) == IF S = {} THEN 0
                                           ELSE LET x == CHOOSE x \in S : TRUE
                                                IN  sizes[x] + Sum(S \ {x})
                             IN  Sum(spans)
            size_count == IF spans = {} THEN 1 ELSE Cardinality(spans)
            overlaps_with_table ==
                \E t \in 1..Len(table_bboxes) :
                    _bbox_overlap(block.bbox, table_bboxes[t], TableOverlapThreshold)
        IN  IF ~Truthy(strip(block_text)) THEN <<>>
            ELSE IF overlaps_with_table THEN <<>>
            ELSE <<[content |-> strip(block_text),
                    type |-> content_type_of(is_bold, size_sum, size_count),
                    bbox |-> block.bbox,
                    y_position |-> block.bbox[2],
                    font_size |-> <<size_sum, size_count>>,
                    is_bold |-> is_bold,
                    block_number |-> block_num]>>

\* dict.get(key, []) of a dict from page numbers to lists
GetList(d, key) == IF key \in DOMAIN d THEN d[key] ELSE <<>>

\* Mutant: the tables of every page are taken, whatever the page number.
tables_on_any_page(d, key) ==
    LET RECURSIVE All(_)
        All(K) == IF K = {} THEN <<>>
                  ELSE LET k == CHOOSE k \in K : \A j \in K : k <= j
                       IN  d[k] \o All(K \ {k})
    IN  All(DOMAIN d)

\* Line 249: tables_on_page = page_tables.get(page_num, [])
tables_on_page_of(d, key) == GetList(d, key)

\* Lines 246-307: text_blocks of one page, given the tables found on the page
page_text_blocks_of(page, tables_on_page) ==
    LET table_bboxes == [t \in 1..Len(tables_on_page) |-> tables_on_page[t].bbox]
    IN  Flatten([b \in 1..Len(page.blocks) |->
                    text_dicts_of_block(page.blocks[b], b - 1, table_bboxes)])

(***************************************************************************)
(* Page Content Merger: Parse_resume.merge_page_content                    *)
(***************************************************************************)

\* Mutant: an unstable sort that reverses equal keys.
sort_by_y_unstable(items) ==
    LET n == Len(items)
        Rank(i) == Cardinality({j \in 1..n :
                        \/ items[j].y_position < items[i].y_position
                        \/ (items[j].y_position = items[i].y_position /\ j > i)})
    IN  [k \in 1..n |-> items[CHOOSE i \in 1..n : Rank(i) = k - 1]]

\* all_content.sort(key=lambda x: x['y_position']): list.sort is stable, so
\* an item is preceded by the items of smaller key and by the earlier items
\* of equal key.
sort_by_y(items) ==
    LET n == Len(items)
        Rank(i) == Cardinality({j \in 1..n :
                        \/ items[j].y_position < items[i].y_position
                        \/ (items[j].y_position = items[i].y_position /\ j < i)})
    IN  [k \in 1..n |-> items[CHOOSE i \in 1..n : Rank(i) = k - 1]]

\* Lines 361-370; block.get('font_size', 12) and block.get('is_bold', False)
merged_text(block, page_number) ==
    [content |-> block.content, type |-> block.type,
     y_position |-> block.y_position, page |-> page_number + 1,
     bbox |-> block.bbox,
     font_size |-> IF "font_size" \in DOMAIN block THEN block.font_size ELSE <<12, 1>>,
     is_bold |-> IF "is_bold" \in DOMAIN block THEN block.is_bold ELSE FALSE]

\* Mutant: tables carry the 0-based page number.
merged_table_zero_based(table, page_number) ==
    [content |-> table.content, type |-> "table",
     y_position |-> table.y_position, page |-> page_number,
     bbox |-> table.bbox, rows |-> table.rows, cols |-> table.cols]

\* Lines 373-382
merged_table(table, page_number) ==
    [content |-> table.content, type |-> "table",
     y_position |-> table.y_position, page |-> page_number + 1,
     bbox |-> table.bbox, rows |-> table.rows, cols |-> table.cols]

merge_page_content(page_number, text_blocks, tables) ==
    sort_by_y([i \in 1..Len(text_blocks) |-> merged_text(text_blocks[i], page_number)]
              \o [i \in 1..Len(tables) |-> merged_table(tables[i], page_number)])

(***************************************************************************)
(* Document Assembler: Parse_resume.parse_document_hybrid, lines 450-515   *)
(***************************************************************************)

\* Program constant: the width of the banner and underline rules
RuleWidth == 60

\* re.sub(r'[ \t]+', ' ', text)
collapse_blanks(s) ==
    LET IsBlank(c) == c \in {" ", "\t"}
        blanked == [i \in 1..Len(s) |-> IF IsBlank(s[i]) THEN " " ELSE s[i]]
        Keep(i) == ~(IsBlank(s[i]) /\ i > 1 /\ IsBlank(s[i - 1]))
    IN  SelectIdx(blanked, Keep)

\* Last index of the whitespace run of s that holds index i
WsRunEnd(s, i) ==
    CHOOSE e \in i..Len(s) :
        /\ \A k \in i..e : IsSpaceCh(s[k])
        /\ e = Len(s) \/ ~IsSpaceCh(s[e + 1])

RECURSIVE CollapseNewlinesFrom(_, _)
\* re.sub(r'\n\s*\n\s*\n+', '\n\n', s) from index i on: a match starts at a
\* newline whose whitespace run holds three newlines or more and ends at the
\* last newline of the run.
CollapseNewlinesFrom(s, i) ==
    IF i > Len(s) THEN <<>>
    ELSE IF s[i] = "\n"
         THEN LET newlines == {k \in i..WsRunEnd(s, i) : s[k] = "\n"}
                  last == CHOOSE k \in newlines : \A m \in newlines : m <= k
              IN  IF Cardinality(newlines) >= 3
                  THEN <<"\n", "\n">> \o CollapseNewlinesFrom(s, last + 1)
                  ELSE <<s[i]>> \o CollapseNewlinesFrom(s, i + 1)
         ELSE <<s[i]>> \o CollapseNewlinesFrom(s, i + 1)

\* [\x20-\x7E\u00A0-\u024F\u1E00-\u1EFF\n\r\t]
InLatinRangesOrBreak(c) == InLatinRanges(c) \/ c \in {"\n", "\r", "\t"}

clean_text_content(text) ==
    IF ~Truthy(text) THEN <<>>
    ELSE
        LET t1 == collapse_blanks(text)
            t2 == CollapseNewlinesFrom(t1, 1)
            t3 == SelectSeq(t2, InLatinRangesOrBreak)
            t4 == SelectSeq(t3, LAMBDA c : c # ReplacementChar)
        IN  strip(t4)

\* Lines 453-470: what one item appends to final_text
item_text(item) ==
    LET content == strip(item.content)
        rule == Rep("=", RuleWidth)
    IN  IF item.type = "table"
        THEN <<"\n">> \o rule \o <<"\n">>
             \o <<"T", "A", "B", "L", "E", ":", "\n">>
             \o rule \o <<"\n", "\n">>
             \o content \o <<"\n", "\n">>
             \o rule \o <<"\n", "\n">>
        ELSE IF item.type = "heading"
        THEN <<"\n">> \o content \o <<"\n">>
             \o Rep("-", Min2(Len(content), RuleWidth)) \o <<"\n", "\n">>
        ELSE LET cleaned_content == clean_text_content(content)
             IN  IF Truthy(cleaned_content) THEN cleaned_content \o <<"\n", "\n">>
                 ELSE <<>>

\* Lines 451-470
final_text_of(content_items) ==
    Flatten([i \in 1..Len(content_items) |-> item_text(content_items[i])])

\* sum(len(v) for v in d.values())
TotalLen(d) ==
    LET RECURSIVE Sum(_)
        Sum(S) == IF S = {} THEN 0
                  ELSE LET k == CHOOSE k \in S : TRUE IN Len(d[k]) + Sum(S \ {k})
    IN  Sum(DOMAIN d)

\* Lines 474-487: the result of a parse that ran to its end. processing_time,
\* a wall-clock difference, is left out.
hybrid_result(doc_name, content_items, pages, text_count, table_count) ==
    [document_name |-> doc_name,
     content |-> strip(final_text_of(content_items)),
     total_pages |-> pages,
     parsing_method |-> "hybrid_pymupdf_pdfplumber",
     metadata |-> [total_elements |-> Len(content_items),
                   text_elements |-> text_count,
                   table_elements |-> table_count,
                   pages_processed |-> pages,
                   characters_extracted |-> Len(final_text_of(content_items))]]

\* Lines 501-515: the failure variant built by the handler of line 499
hybrid_error_result(doc_name, e) ==
    [document_name |-> doc_name,
     content |-> <<>>,
     total_pages |-> 0,
     parsing_method |-> "hybrid_error",
     metadata |-> [total_elements |-> 0, text_elements |-> 0, table_elements |-> 0,
                   pages_processed |-> 0, characters_extracted |-> 0,
                   error |-> e]]

(***************************************************************************)
(* Skill-Token Extractor: extract_tech.extract_skills_from_text            *)
(***************************************************************************)

\* Lines 22 and 41: the minimal fallback
MINIMAL_FALLBACK ==
    {<<"a", "n", "d">>,
     <<"o", "r">>,
     <<"w", "i", "t", "h">>,
     <<"t", "h", "e">>,
     <<"a">>,
     <<"a", "n">>,
     <<"i", "n">>,
     <<"o", "n">>,
     <<"f", "o", "r">>,
     <<"t", "o">>,
     <<"o", "f">>,
     <<"b", "y">>,
     <<"f", "r", "o", "m">>,
     <<"a", "t">>}

\* Lines 30-38: set(stopwords.words('english')) of NLTK. The corpus is no part
\* of the repository; listed are the words of the fallback, all of which it
\* holds, and further words of it. Of the words in the texts of this model it
\* holds the ones listed here and no other; it does not hold "go".
_nltk_stopwords ==
    MINIMAL_FALLBACK \cup
    {<<"i", "s">>,
     <<"a", "r", "e">>,
     <<"w", "a", "s">>,
     <<"b", "e">>,
     <<"t", "h", "i", "s">>,
     <<"t", "h", "a", "t">>,
     <<"i", "t">>,
     <<"a", "s">>,
     <<"b", "u", "t">>,
     <<"i", "f">>,
     <<"n", "o", "t">>,
     <<"n", "o">>,
     <<"s", "o">>,
     <<"t", "h", "a", "n">>,
     <<"t", "o", "o">>,
     <<"v", "e", "r", "y">>,
     <<"c", "a", "n">>,
     <<"w", "i", "l", "l">>,
     <<"j", "u", "s", "t">>,
     <<"s">>,
     <<"t">>,
     <<"d">>,
     <<"m">>,
     <<"o">>,
     <<"y">>,
     <<"l", "l">>,
     <<"r", "e">>,
     <<"v", "e">>,
     <<"m", "a">>}

\* Lines 25-27: set(STOP_WORDS) of spacy.lang.en.stop_words. The list is no part
\* of the repository; listed are the words of the fallback, all of which it
\* holds, and further words of it, among them "go". Of the words in the texts
\* of this model it holds the ones listed here and no other.
_SPACY_STOPWORDS ==
    MINIMAL_FALLBACK \cup
    {<<"i", "s">>,
     <<"a", "r", "e">>,
     <<"w", "a", "s">>,
     <<"b", "e">>,
     <<"t", "h", "i", "s">>,
     <<"t", "h", "a", "t">>,
     <<"i", "t">>,
     <<"a", "s">>,
     <<"b", "u", "t">>,
     <<"i", "f">>,
     <<"n", "o", "t">>,
     <<"n", "o">>,
     <<"s", "o">>,
     <<"t", "h", "a", "n">>,
     <<"t", "o", "o">>,
     <<"v", "e", "r", "y">>,
     <<"c", "a", "n">>,
     <<"w", "i", "l", "l">>,
     <<"j", "u", "s", "t">>,
     <<"g", "o">>,
     <<"u", "s", "i", "n", "g">>,
     <<"u", "s", "e", "d">>,
     <<"v", "a", "r", "i", "o", "u", "s">>,
     <<"m", "a", "k", "e">>,
     <<"n", "a", "m", "e">>,
     <<"t", "o", "p">>,
     <<"f", "r", "o", "n", "t">>,
     <<"b", "a", "c", "k">>,
     <<"s", "i", "d", "e">>,
     <<"s", "h", "o", "w">>,
     <<"c", "a", "l", "l">>,
     <<"f", "u", "l", "l">>,
     <<"m", "o", "v", "e">>,
     <<"p", "u", "t">>,
     <<"t", "a", "k", "e">>,
     <<"k", "e", "e", "p">>,
     <<"p", "a", "r", "t">>,
     <<"s", "e", "e">>,
     <<"s", "a", "y">>,
     <<"g", "i", "v", "e">>,
     <<"g", "e", "t">>,
     <<"d", "o", "n", "e">>}

\* Lines 24-41: what STOPWORDS is bound to once the module is imported: spaCy's
\* list where spaCy imports, else NLTK's where NLTK and its corpus load, else
\* the fallback. Which of the three it is depends on what is installed.
StopwordBindings == {_SPACY_STOPWORDS, _nltk_stopwords, MINIMAL_FALLBACK}

\* str.splitlines() boundaries of the model: \n, \r, \r\n and \f
IsLineBreak(c) == c \in {"\n", "\r", "\f"}

\* The k-th smallest element of the finite set S of numbers
KthOf(S, k) == CHOOSE i \in S : Cardinality({j \in S : j <= i}) = k

\* str.splitlines(): a line ends at each boundary (\r\n is one boundary), and
\* the text after the last boundary is a line when it is not empty
splitlines(s) ==
    LET ends == {i \in 1..Len(s) :
                    /\ IsLineBreak(s[i])
                    /\ ~(s[i] = "\r" /\ i < Len(s) /\ s[i + 1] = "\n")}
        n == Cardinality(ends)
        last == IF n = 0 THEN 0 ELSE KthOf(ends, n)
        BreakStart(e) == IF s[e] = "\n" /\ e > 1 /\ s[e - 1] = "\r" THEN e - 1 ELSE e
        LineStart(k) == IF k = 1 THEN 1 ELSE KthOf(ends, k - 1) + 1
    IN  [k \in 1..n |-> SubSeq(s, LineStart(k), BreakStart(KthOf(ends, k)) - 1)]
        \o (IF last < Len(s) THEN <<SubSeq(s, last + 1, Len(s))>> ELSE <<>>)

\* [:\s-]
IsSepCh(c) == c \in {":", "-"} \/ IsSpaceCh(c)

\* w, a lowercase word, stands in s at index pos, ignoring case
WordAt(s, pos, w) ==
    /\ pos + Len(w) - 1 <= Len(s)
    /\ \A k \in 1..Len(w) : LowerCh(s[pos + k - 1]) = w[k]

\* Number of characters from index pos on that satisfy Test
RunLength(s, pos, Test(_)) ==
    IF pos > Len(s) \/ ~Test(s[pos]) THEN 0
    ELSE LET e == CHOOSE e \in pos..Len(s) :
                    /\ \A k \in pos..e : Test(s[k])
                    /\ e = Len(s) \/ ~Test(s[e + 1])
         IN  e - pos + 1

\* a\s*b at index pos: the index after the match, or 0
TwoWordsEnd(s, pos, a, b) ==
    IF ~WordAt(s, pos, a) THEN 0
    ELSE LET q == pos + Len(a) + RunLength(s, pos + Len(a), IsSpaceCh)
         IN  IF WordAt(s, q, b) THEN q + Len(b) ELSE 0

\* one literal word at index pos: the index after the match, or 0
OneWordEnd(s, pos, w) == IF WordAt(s, pos, w) THEN pos + Len(w) ELSE 0

W_skills == <<"s", "k", "i", "l", "l", "s">>
W_technical_skills == <<"t", "e", "c", "h", "n", "i", "c", "a", "l", " ", "s", "k", "i", "l", "l", "s">>
W_tech == <<"t", "e", "c", "h">>
W_stack == <<"s", "t", "a", "c", "k">>
W_techstack == <<"t", "e", "c", "h", "s", "t", "a", "c", "k">>
W_technology == <<"t", "e", "c", "h", "n", "o", "l", "o", "g", "y">>
W_technologies == <<"t", "e", "c", "h", "n", "o", "l", "o", "g", "i", "e", "s">>
W_tools == <<"t", "o", "o", "l", "s">>
W_skillset == <<"s", "k", "i", "l", "l", "s", "e", "t">>
W_technical_competencies == <<"t", "e", "c", "h", "n", "i", "c", "a", "l", " ", "c", "o", "m", "p", "e", "t", "e", "n", "c", "i", "e", "s">>

\* The alternatives of inline_heading_re (line 57) in their order, each as the
\* index after its match at the start of the line, or 0
InlineAltEnds(line) ==
    <<OneWordEnd(line, 1, W_skills),
      OneWordEnd(line, 1, W_technical_skills),
      TwoWordsEnd(line, 1, W_tech, W_stack),
      OneWordEnd(line, 1, W_techstack),
      TwoWordsEnd(line, 1, W_technology, W_stack),
      OneWordEnd(line, 1, W_technologies),
      OneWordEnd(line, 1, W_tools),
      OneWordEnd(line, 1, W_skillset)>>

\* The alternatives of heading_re (line 56)
HeadingAltEnds(line) ==
    InlineAltEnds(line) \o <<OneWordEnd(line, 1, W_technical_competencies)>>

\* [:\s-]+(.+)$ from index q on: the start of group 2, or 0. The separator run
\* is greedy and gives one character back when it reaches the end of the line.
InlineRestStart(line, q) ==
    LET m == RunLength(line, q, IsSepCh)
    IN  IF m = 0 THEN 0
        ELSE IF q + m <= Len(line) THEN q + m
        ELSE IF m >= 2 THEN Len(line)
        ELSE 0

\* inline_heading_re.match(line): <<group 2>> of the first alternative that
\* lets the whole pattern match, or <<>> for no match
inline_heading_match(line) ==
    LET ends == InlineAltEnds(line)
        ok == {a \in 1..Len(ends) :
                ends[a] # 0 /\ InlineRestStart(line, ends[a]) # 0}
    IN  IF ok = {} THEN <<>>
        ELSE LET a == CHOOSE a \in ok : \A b \in ok : a <= b
             IN  <<SubSeq(line, InlineRestStart(line, ends[a]), Len(line))>>

\* heading_re.match(line): an alternative followed by separators only
heading_match(line) ==
    LET ends == HeadingAltEnds(line)
    IN  \E a \in 1..Len(ends) :
            ends[a] # 0 /\ \A k \in ends[a]..Len(line) : IsSepCh(line[k])

\* \w
IsWordCh(c) == IsLetter(c) \/ IsDigit(c) \/ c = "_"

\* \btech\s*stack\b\s*[:U+FF1A]\s*(.+)$ matched at index pos: the start of
\* group 1, or 0
TechStackRestStart(line, pos) ==
    IF pos > 1 /\ IsWordCh(line[pos - 1]) THEN 0
    ELSE LET e == TwoWordsEnd(line, pos, W_tech, W_stack)
         IN  IF e = 0 THEN 0
             ELSE LET c == e + RunLength(line, e, IsSpaceCh)
                  IN  IF c > Len(line) \/ line[c] \notin {":", FullwidthColon} THEN 0
                      ELSE LET r == c + 1 + RunLength(line, c + 1, IsSpaceCh)
                           IN  IF r <= Len(line) THEN r
                               ELSE IF r - 1 > c THEN Len(line)
                               ELSE 0

\* techstack_line_re.search(line): <<group 1>> of the leftmost match, or <<>>
techstack_line_search(line) ==
    LET starts == {pos \in 1..Len(line) : TechStackRestStart(line, pos) # 0}
    IN  IF starts = {} THEN <<>>
        ELSE LET pos == CHOOSE pos \in starts : \A q \in starts : pos <= q
             IN  <<SubSeq(line, TechStackRestStart(line, pos), Len(line))>>

\* str.split(): the number of whitespace-separated words
WordCount(s) ==
    Cardinality({i \in 1..Len(s) :
        ~IsSpaceCh(s[i]) /\ (i = 1 \/ IsSpaceCh(s[i - 1]))})

\* Line 88: re.match(r'^[A-Z][A-Za-z ]{1,40}$', l) and len(l.split()) <= 4
looks_like_heading(l) ==
    /\ Len(l) >= 2 /\ Len(l) <= 41
    /\ l[1] \in UpperSet
    /\ \A k \in 2..Len(l) : IsLetter(l[k]) \/ l[k] = " "
    /\ WordCount(l) <= 4

\* Lines 85-91: the index j at which the block opened at line i ends
RECURSIVE BlockEnd(_, _)
BlockEnd(lines, j) ==
    IF j <= Len(lines) /\ Truthy(strip(lines[j])) /\ ~looks_like_heading(lines[j])
    THEN BlockEnd(lines, j + 1)
    ELSE j

\* Mutant: a line without a cue is taken as a candidate itself.
step_result_whole_line(lines, i, m_inline, m_tech) ==
    IF ~Truthy(lines[i]) THEN [i |-> i + 1, found |-> <<>>]
    ELSE IF m_inline # <<>> THEN [i |-> i + 1, found |-> <<strip(m_inline[1])>>]
    ELSE IF m_tech # <<>> THEN [i |-> i + 1, found |-> <<strip(m_tech[1])>>]
    ELSE IF heading_match(lines[i]) \/ heading_match(lower(lines[i]))
    THEN [i |-> BlockEnd(lines, i + 1),
          found |-> IF BlockEnd(lines, i + 1) > i + 1
                    THEN <<Join(<<" ">>, SubSeq(lines, i + 1, BlockEnd(lines, i + 1) - 1))>>
                    ELSE <<>>]
    ELSE [i |-> i + 1, found |-> <<lines[i]>>]

\* Mutant: after a heading block the scan goes on behind the line that ended
\* the block.
step_result_past_block_end(lines, i, m_inline, m_tech) ==
    IF ~Truthy(lines[i]) THEN [i |-> i + 1, found |-> <<>>]
    ELSE IF m_inline # <<>> THEN [i |-> i + 1, found |-> <<strip(m_inline[1])>>]
    ELSE IF m_tech # <<>> THEN [i |-> i + 1, found |-> <<strip(m_tech[1])>>]
    ELSE IF heading_match(lines[i]) \/ heading_match(lower(lines[i]))
    THEN [i |-> BlockEnd(lines, i + 1) + 1,
          found |-> IF BlockEnd(lines, i + 1) > i + 1
                    THEN <<Join(<<" ">>, SubSeq(lines, i + 1, BlockEnd(lines, i + 1) - 1))>>
                    ELSE <<>>]
    ELSE [i |-> i + 1, found |-> <<>>]

\* Lines 64-97 once m_inline and m_tech are known: the new index and the
\* candidates the iteration appends
step_result(lines, i, m_inline, m_tech) ==
    IF ~Truthy(lines[i]) THEN [i |-> i + 1, found |-> <<>>]
    ELSE IF m_inline # <<>> THEN [i |-> i + 1, found |-> <<strip(m_inline[1])>>]
    ELSE IF m_tech # <<>> THEN [i |-> i + 1, found |-> <<strip(m_tech[1])>>]
    ELSE IF heading_match(lines[i]) \/ heading_match(lower(lines[i]))
    THEN [i |-> BlockEnd(lines, i + 1),
          found |-> IF BlockEnd(lines, i + 1) > i + 1
                    THEN <<Join(<<" ">>, SubSeq(lines, i + 1, BlockEnd(lines, i + 1) - 1))>>
                    ELSE <<>>]
    ELSE [i |-> i + 1, found |-> <<>>]

\* One iteration of the loop of lines 63-97 at index i (1-based)
scan_step(lines, i) ==
    step_result(lines, i, inline_heading_match(lines[i]), techstack_line_search(lines[i]))

RECURSIVE scan_candidates(_, _)
\* Lines 61-97: the candidates gathered from index i on
scan_candidates(lines, i) ==
    IF i > Len(lines) THEN <<>>
    ELSE LET step == scan_step(lines, i)
         IN  step.found \o scan_candidates(lines, step.i)

\* [,/;|U+2022]
IsSplitCh(c) == c \in {",", "/", ";", "|", Bullet}

RECURSIVE SplitFrom(_, _, _)
\* split_re.split(s) from index i on, `cur` being the part read so far
SplitFrom(s, i, cur) ==
    IF i > Len(s) THEN <<cur>>
    ELSE IF IsSplitCh(s[i])
         THEN <<cur>> \o SplitFrom(s, i + RunLength(s, i, IsSplitCh), <<>>)
         ELSE SplitFrom(s, i + 1, Append(cur, s[i]))

split_parts(s) == SplitFrom(s, 1, <<>>)

\* [A-Za-z0-9#+./-]
IsTokenCh(c) == IsLetter(c) \/ IsDigit(c) \/ c \in {"#", "+", ".", "/", "-"}

\* extract_tech.py lines 43-46: strip(), then the leading and the trailing run of
\* characters outside [A-Za-z0-9#+./-] removed
_token_clean(tok) ==
    LET t == strip(tok)
        idx == {i \in 1..Len(t) : IsTokenCh(t[i])}
    IN  IF idx = {} THEN <<>>
        ELSE SubSeq(t, CHOOSE i \in idx : \A j \in idx : i <= j,
                       CHOOSE i \in idx : \A j \in idx : j <= i)

\* Lines 122-125
accept_token(tok) ==
    /\ \E i \in 1..Len(tok) : IsLetter(tok[i])
    /\ \/ \E i \in 1..Len(tok) : tok[i] \in {"+", ".", "#", "-"}
       \/ \E i \in 1..Len(tok) : IsDigit(tok[i])
       \/ Len(tok) > 1

RECURSIVE collect_tokens_case_sensitive(_, _, _)
\* Mutant: the seen set holds the tokens as written, not their lowercase keys.
collect_tokens_case_sensitive(parts, seen, tokens) ==
    IF parts = <<>> THEN tokens
    ELSE
        LET tok == _token_clean(Head(parts))
            key == lower(tok)
        IN  IF ~Truthy(tok) THEN collect_tokens_case_sensitive(Tail(parts), seen, tokens)
            ELSE IF key \in STOPWORDS
                 THEN collect_tokens_case_sensitive(Tail(parts), seen, tokens)
            ELSE IF accept_token(tok) /\ tok \notin seen
                 THEN collect_tokens_case_sensitive(Tail(parts), seen \cup {tok},
                                                    Append(tokens, tok))
                 ELSE collect_tokens_case_sensitive(Tail(parts), seen, tokens)

RECURSIVE collect_tokens(_, _, _)
\* Lines 109-129 over the parts of all candidates, in order
collect_tokens(parts, seen, tokens) ==
    IF parts = <<>> THEN tokens
    ELSE
        LET tok == _token_clean(Head(parts))
            key == lower(tok)
        IN  IF ~Truthy(tok) THEN collect_tokens(Tail(parts), seen, tokens)
            ELSE IF key \in STOPWORDS THEN collect_tokens(Tail(parts), seen, tokens)
            ELSE IF accept_token(tok) /\ key \notin seen
                 THEN collect_tokens(Tail(parts), seen \cup {key}, Append(tokens, tok))
                 ELSE collect_tokens(Tail(parts), seen, tokens)

\* Line 53: lines = [l.strip() for l in text.splitlines()]
stripped_lines(raw_lines) == [i \in 1..Len(raw_lines) |-> strip(raw_lines[i])]

\* Lines 107-108: the parts of all candidates, in order
parts_of(candidates) ==
    Flatten([c \in 1..Len(candidates) |-> split_parts(candidates[c])])

\* extract_tech.py lines 49-131: extract_skills_from_text
extract_skills_from_text(text) ==
    IF ~Truthy(text) THEN <<>>
    ELSE collect_tokens(
            parts_of(scan_candidates(stripped_lines(splitlines(text)), 1)), {}, <<>>)

(***************************************************************************)
(* The uploaded documents                                                  *)
(***************************************************************************)

\* Text only: blocks out of reading order, two of them at the same height
TextPage ==
    [tables |-> <<>>,
     blocks |-> <<
     [has_lines |-> TRUE,
      lines |-> << <<[text |-> <<"S", "k", "i", "l", "l", "s", ":", " ", "G", "o", ",", " ", "R">>, size |-> 11, flags |-> 0]>> >>,
      bbox |-> <<0,50,100,60>>],
     [has_lines |-> TRUE,
      lines |-> << <<[text |-> <<"T", "e", "c", "h", " ">>, size |-> 11, flags |-> 0], [text |-> <<" ", "S", "t", "a", "c", "k", ":">>, size |-> 11, flags |-> 0]>>, <<[text |-> <<"P", "y", "t", "h", "o", "n", ",", " ", "g", "o">>, size |-> 11, flags |-> 0]>> >>,
      bbox |-> <<0,10,100,20>>],
     [has_lines |-> TRUE,
      lines |-> << <<[text |-> <<"S", "u", "m", "m", "a", "r", "y">>, size |-> 16, flags |-> 16]>> >>,
      bbox |-> <<0,30,100,40>>],
     [has_lines |-> TRUE,
      lines |-> << <<[text |-> <<"C", "+", "+", " ", "a", "n", "d", " ", "J", "a", "v", "a">>, size |-> 16, flags |-> 0]>> >>,
      bbox |-> <<120,30,200,40>>]>>]

\* An accepted table, a block inside it, a block that covers a quarter of itself
\* with the table, a bold block at the height of the table, an image block
TablePage ==
    [tables |-> <<[data |-> << <<<<"T", "o", "o", "l">>, <<"L", "v", "l">>>>,
           <<<<"G", "o">>, NoneCell>>,
           <<<<"R", " ">>, <<" ", "2">>>>,
           <<NoneCell, <<>>>> >>,
      bbox |-> <<0,20,100,60>>, extract_raises |-> FALSE]>>,
     blocks |-> <<
     [has_lines |-> TRUE,
      lines |-> << <<[text |-> <<"G", "o", " ", "1">>, size |-> 11, flags |-> 0]>> >>,
      bbox |-> <<10,30,50,40>>],
     [has_lines |-> TRUE,
      lines |-> << <<[text |-> <<"T", "o", "o", "l", "s">>, size |-> 12, flags |-> 20]>> >>,
      bbox |-> <<200,20,300,40>>],
     [has_lines |-> FALSE, lines |-> <<>>, bbox |-> <<0,70,100,90>>],
     [has_lines |-> TRUE,
      lines |-> << <<[text |-> <<"T", "o", "o", "l", "s", ":", " ", "g", "i", "t">>, size |-> 11, flags |-> 0]>> >>,
      bbox |-> <<0,0,100,25>>]>>]

\* A table whose extract() raises, a candidate of two rows that the validator
\* rejects, a block inside the rejected candidate, a block of blanks
RejectPage ==
    [tables |-> <<[data |-> <<  >>,
      bbox |-> <<0,0,10,10>>, extract_raises |-> TRUE],
     [data |-> << <<<<"T", "e", "c", "h">>, <<"S", "t", "a", "c", "k">>>>,
           <<<<"R", "u", "s", "t">>, <<"G", "o">>>> >>,
      bbox |-> <<0,0,100,100>>, extract_raises |-> FALSE]>>,
     blocks |-> <<
     [has_lines |-> TRUE,
      lines |-> << <<[text |-> <<"T", "e", "c", "h", " ", "S", "t", "a", "c", "k", ":", " ", "R", "u", "s", "t">>, size |-> 11, flags |-> 0]>> >>,
      bbox |-> <<10,10,90,20>>],
     [has_lines |-> TRUE,
      lines |-> << <<[text |-> <<" ">>, size |-> 11, flags |-> 0], [text |-> <<>>, size |-> 11, flags |-> 0]>> >>,
      bbox |-> <<10,30,90,40>>]>>]

\* A page without content
EmptyPage ==
    [tables |-> <<>>,
     blocks |-> <<
     >>]

PageKinds == {TextPage, TablePage, RejectPage, EmptyPage}

\* Largest number of pages of an uploaded document
MaxPages == 2

RECURSIVE PageSeqs(_)
\* the sequences of n pages
PageSeqs(n) ==
    IF n = 0 THEN {<<>>}
    ELSE {Append(q, pg) : q \in PageSeqs(n - 1), pg \in PageKinds}

\* A document: its pages as fitz enumerates them (with what pdfplumber finds
\* on each), the pages pdfplumber enumerates beyond those (a damaged page
\* tree is read differently by the two libraries), whether fitz.open and
\* pdfplumber.open succeed on the file (plumber is "unavailable" when the
\* import of line 15 failed), and the 1-based page on which page.find_tables /
\* page.get_text raises (0: none).
Documents ==
    {[name |-> "resume.pdf", pages |-> pages, plumber_more |-> more,
      fitz_opens |-> fo, plumber |-> pl,
      find_tables_raises |-> ft, get_text_raises |-> gt] :
        pages \in UNION {PageSeqs(n) : n \in 0..MaxPages},
        more \in {<<>>, <<TablePage>>},
        fo \in BOOLEAN, pl \in {"ok", "open_raises", "unavailable"},
        ft \in 0..MaxPages, gt \in 0..MaxPages}

\* pdf.pages of pdfplumber (line 113): the file is opened a second time, by
\* another library than the one behind len(doc) (lines 105, 240 and 440)
plumber_pages(d) == d.pages \o d.plumber_more

\* The failure fields say something only where the library gets that far.
WellFormedDocument(d) ==
    /\ d.find_tables_raises <= Len(plumber_pages(d))
    /\ d.plumber # "ok" => d.plumber_more = <<>>
    /\ d.get_text_raises <= Len(d.pages)
    /\ d.plumber # "ok" => d.find_tables_raises = 0
    /\ ~d.fitz_opens => d.get_text_raises = 0

(***************************************************************************)
(* resume_parser, extract_from_pdf and parse_document_hybrid as steps      *)
(***************************************************************************)

\* `except Exception` catches every exception class of the model.
ExceptionClasses == {"RuntimeError", "FileDataError", "ImportError"}

\* Mutant: the handler of line 499 catches nothing.
caught_by_except_nothing(e) == FALSE

\* Line 499: except Exception as e
caught_by_except_Exception(e) == e \in ExceptionClasses

Init ==
    /\ pdf \in {d \in Documents : WellFormedDocument(d)}
    /\ temp_exists = FALSE /\ response = NoResponse /\ skills = <<>>
    /\ page_num = 0 /\ page_tables = EmptyDict /\ total_tables = 0
    /\ page_text_blocks = EmptyDict /\ total_text_blocks = 0
    /\ total_pages = 0 /\ all_content = <<>> /\ result = NoResult
    /\ exc = "" /\ log = {}
    /\ STOPWORDS = {}
    /\ pc = "rp_import"
    /\ bbox1 = <<>> /\ bbox2 = <<>> /\ overlap_threshold = <<1, 2>>
    /\ overlap_result = FALSE
    /\ cleaned_data = <<>> /\ valid_result = FALSE
    /\ HarnessIdle

\* recommender.py lines 18-24: the lazy import of extract_from_pdf. The import
\* of src.extract_tech binds STOPWORDS (extract_tech.py lines 22-41); a later
\* request of the process finds the binding of the first.
RP_Import ==
    /\ pc = "rp_import"
    /\ \E imported \in BOOLEAN :
        IF imported
        THEN /\ pc' = "rp_write"
             /\ STOPWORDS' \in StopwordBindings
             /\ UNCHANGED response
        ELSE /\ response' = [status |-> 500,
                             detail |-> "Local parser not available"]
             /\ pc' = "rp_exit"
             /\ UNCHANGED STOPWORDS
    /\ UNCHANGED <<pdf, temp_exists, skills, parseVars, exc, log, bboxVars, tableVars, harnessVars>>

\* recommender.py lines 26-28: the upload is written to the temporary file
RP_WriteTemp ==
    /\ pc = "rp_write"
    /\ temp_exists' = TRUE
    /\ pc' = "efp_import"
    /\ UNCHANGED <<pdf, STOPWORDS, response, skills, parseVars, exc, log, bboxVars, tableVars, harnessVars>>

\* Parse_resume.py lines 14-20: the warning printed when pdfplumber cannot be
\* imported. The lines run in the first import of the module in a process
\* (first_import), where the top level gets as far as line 20.
import_warnings(plumber, first_import) ==
    IF first_import /\ plumber = "unavailable"
    THEN {"pdfplumber not available"}
    ELSE {}

\* extract_tech.py lines 136-145: the import of Parse_resume; its failure is
\* raised as RuntimeError out of extract_from_pdf. In the first request of a
\* process the import runs the top level of Parse_resume.py; later requests
\* find the module in sys.modules. A failing import is one whose top level
\* raises: before the pdfplumber block (import numpy, import fitz, lines 9-11,
\* or a pdfplumber import that raises something else than ImportError), or
\* after it (import pandas raising something else than ImportError, line 24),
\* when the warning of line 20 has been printed already.
EFP_Import ==
    /\ pc = "efp_import"
    /\ \E imported \in BOOLEAN, first_import \in BOOLEAN, past_line_20 \in BOOLEAN :
        IF imported
        THEN /\ pc' = "tables_open"
             /\ log' = log \cup import_warnings(pdf.plumber, first_import)
             /\ UNCHANGED exc
        ELSE /\ first_import
             /\ exc' = "RuntimeError"
             /\ pc' = "rp_except"
             /\ log' = log \cup import_warnings(pdf.plumber, past_line_20)
    /\ UNCHANGED <<pdf, STOPWORDS, requestVars, parseVars, bboxVars, tableVars, harnessVars>>

\* Parse_resume.py lines 105-112: extract_tables_with_pdfplumber up to the
\* page loop
PDH_TablesOpen ==
    /\ pc = "tables_open"
    /\ page_tables' = EmptyDict
    /\ page_num' = 0
    /\ CASE pdf.plumber = "unavailable" ->
                pc' = "tables_done" /\ UNCHANGED log
         [] pdf.plumber = "open_raises" ->
                /\ log' = log \cup {"pdfplumber table extraction error"}
                /\ pc' = "tables_done"
         [] OTHER ->
                /\ pc' = IF Len(plumber_pages(pdf)) = 0 THEN "tables_done"
                          ELSE "tables_page"
                /\ UNCHANGED log
    /\ UNCHANGED <<pdf, STOPWORDS, requestVars, total_tables, page_text_blocks,
                   total_text_blocks, total_pages, all_content, result, exc,
                   bboxVars, tableVars, harnessVars>>

\* Lines 113-184: one iteration of the page loop of the table extractor; an
\* exception of page.find_tables leaves the loop through the handler of
\* line 183; an exception of table.extract() is caught inside the loop and
\* printed
PDH_TablesPage ==
    /\ pc = "tables_page"
    /\ IF pdf.find_tables_raises = page_num + 1
       THEN /\ log' = log \cup {"pdfplumber table extraction error"}
            /\ pc' = "tables_done"
            /\ UNCHANGED <<page_tables, page_num>>
       ELSE LET tables == page_tables_of(plumber_pages(pdf)[page_num + 1])
            IN  /\ page_tables' = IF Truthy(tables)
                                  THEN page_tables @@ (page_num :> tables)
                                  ELSE page_tables
                /\ page_num' = page_num + 1
                /\ pc' = IF page_num + 1 = Len(plumber_pages(pdf)) THEN "tables_done"
                          ELSE "tables_page"
                /\ log' = log \cup table_warnings_of(plumber_pages(pdf)[page_num + 1])
    /\ UNCHANGED <<pdf, STOPWORDS, requestVars, total_tables, page_text_blocks,
                   total_text_blocks, total_pages, all_content, result, exc,
                   bboxVars, tableVars, harnessVars>>

\* Lines 425-427
PDH_CountTables ==
    /\ pc = "tables_done"
    /\ total_tables' = TotalLen(page_tables)
    /\ pc' = "text_open"
    /\ UNCHANGED <<pdf, STOPWORDS, requestVars, page_num, page_tables, page_text_blocks,
                   total_text_blocks, total_pages, all_content, result, exc, log,
                   bboxVars, tableVars, harnessVars>>

\* Lines 239-244: extract_text_with_pymupdf up to the page loop
PDH_TextOpen ==
    /\ pc = "text_open"
    /\ page_text_blocks' = EmptyDict
    /\ page_num' = 0
    /\ IF ~pdf.fitz_opens
       THEN /\ log' = log \cup {"PyMuPDF text extraction error"}
            /\ pc' = "text_done"
       ELSE /\ pc' = IF Len(pdf.pages) = 0 THEN "text_done" ELSE "text_page"
            /\ UNCHANGED log
    /\ UNCHANGED <<pdf, STOPWORDS, requestVars, page_tables, total_tables,
                   total_text_blocks, total_pages, all_content, result, exc,
                   bboxVars, tableVars, harnessVars>>

\* Lines 244-315: one iteration of the page loop of the text extractor; an
\* exception of page.get_text leaves the loop through the handler of line 314
PDH_TextPage ==
    /\ pc = "text_page"
    /\ IF pdf.get_text_raises = page_num + 1
       THEN /\ log' = log \cup {"PyMuPDF text extraction error"}
            /\ pc' = "text_done"
            /\ UNCHANGED <<page_text_blocks, page_num>>
       ELSE LET text_blocks == page_text_blocks_of(pdf.pages[page_num + 1],
                                                   tables_on_page_of(page_tables, page_num))
            IN  /\ page_text_blocks' = IF Truthy(text_blocks)
                                       THEN page_text_blocks @@ (page_num :> text_blocks)
                                       ELSE page_text_blocks
                /\ page_num' = page_num + 1
                /\ pc' = IF page_num + 1 = Len(pdf.pages) THEN "text_done"
                          ELSE "text_page"
                /\ UNCHANGED log
    /\ UNCHANGED <<pdf, STOPWORDS, requestVars, page_tables, total_tables,
                   total_text_blocks, total_pages, all_content, result, exc,
                   bboxVars, tableVars, harnessVars>>

\* Lines 431-433
PDH_CountText ==
    /\ pc = "text_done"
    /\ total_text_blocks' = TotalLen(page_text_blocks)
    /\ pc' = "page_count"
    /\ UNCHANGED <<pdf, STOPWORDS, requestVars, page_num, page_tables, total_tables,
                   page_text_blocks, total_pages, all_content, result, exc, log,
                   bboxVars, tableVars, harnessVars>>

\* Lines 437-441: fitz.open raises on a file it cannot open
PDH_PageCount ==
    /\ pc = "page_count"
    /\ all_content' = <<>>
    /\ page_num' = 0
    /\ IF ~pdf.fitz_opens
       THEN exc' = "FileDataError" /\ pc' = "pdh_raised" /\ UNCHANGED total_pages
       ELSE /\ total_pages' = Len(pdf.pages)
            /\ pc' = IF Len(pdf.pages) = 0 THEN "render" ELSE "merge"
            /\ UNCHANGED exc
    /\ UNCHANGED <<pdf, STOPWORDS, requestVars, page_tables, total_tables, page_text_blocks,
                   total_text_blocks, result, log, bboxVars, tableVars, harnessVars>>

\* Lines 443-448: one iteration of the merge loop
PDH_MergePage ==
    /\ pc = "merge"
    /\ LET text_blocks == GetList(page_text_blocks, page_num)
           tables == GetList(page_tables, page_num)
           page_content == merge_page_content(page_num, text_blocks, tables)
       IN  all_content' = all_content \o page_content
    /\ page_num' = page_num + 1
    /\ pc' = IF page_num + 1 = total_pages THEN "render" ELSE "merge"
    /\ UNCHANGED <<pdf, STOPWORDS, requestVars, page_tables, total_tables, page_text_blocks,
                   total_text_blocks, total_pages, result, exc, log,
                   bboxVars, tableVars, harnessVars>>

\* Lines 450-497: the result of a parse that ran to its end (the caller passes
\* save_parsed_text=False)
PDH_Result ==
    /\ pc = "render"
    /\ result' = hybrid_result(pdf.name, all_content, total_pages,
                               total_text_blocks, total_tables)
    /\ pc' = "efp_skills"
    /\ UNCHANGED <<pdf, STOPWORDS, requestVars, page_num, page_tables, total_tables,
                   page_text_blocks, total_text_blocks, total_pages, all_content,
                   exc, log, bboxVars, tableVars, harnessVars>>

\* Lines 499-515: the handler of the body of parse_document_hybrid; an
\* exception it does not catch leaves extract_from_pdf as well
PDH_Except ==
    /\ pc = "pdh_raised"
    /\ IF caught_by_except_Exception(exc)
       THEN /\ log' = log \cup {"Hybrid parsing error"}
            /\ result' = hybrid_error_result(pdf.name, exc)
            /\ exc' = ""
            /\ pc' = "efp_skills"
       ELSE pc' = "rp_except" /\ UNCHANGED <<log, result, exc>>
    /\ UNCHANGED <<pdf, STOPWORDS, requestVars, page_num, page_tables, total_tables,
                   page_text_blocks, total_text_blocks, total_pages, all_content,
                   bboxVars, tableVars, harnessVars>>

\* Mutant: the error text of a failed parse is returned as a skill.
skills_of_result_or_error(res) ==
    IF "error" \in DOMAIN res.metadata
    THEN << <<"e", "r", "r", "o", "r">> >>
    ELSE extract_skills_from_text(res.content)

\* extract_tech.py lines 147-150: text = res.get('content', '') and the call
\* of extract_skills_from_text
skills_of_result(res) ==
    extract_skills_from_text(IF "content" \in DOMAIN res THEN res.content ELSE <<>>)

EFP_Skills ==
    /\ pc = "efp_skills"
    /\ skills' = skills_of_result(result)
    /\ pc' = "rp_unlink"
    /\ UNCHANGED <<pdf, STOPWORDS, temp_exists, response, parseVars, exc, log,
                   bboxVars, tableVars, harnessVars>>

\* recommender.py lines 32-33: an exception of extract_from_pdf is answered
\* with HTTP 500
RP_Except ==
    /\ pc = "rp_except"
    /\ response' = [status |-> 500, detail |-> "Error parsing uploaded resume"]
    /\ exc' = ""
    /\ pc' = "rp_exit"
    /\ UNCHANGED <<pdf, STOPWORDS, temp_exists, skills, parseVars, log, bboxVars, tableVars, harnessVars>>

\* recommender.py lines 35-38: unlink, whose failure is ignored
RP_Unlink ==
    /\ pc = "rp_unlink"
    /\ \E unlinked \in BOOLEAN : temp_exists' = ~unlinked
    /\ pc' = "rp_return"
    /\ UNCHANGED <<pdf, STOPWORDS, response, skills, parseVars, exc, log, bboxVars, tableVars, harnessVars>>

\* recommender.py line 40
RP_Return ==
    /\ pc = "rp_return"
    /\ response' = [status |-> 200, extracted_skills |-> skills]
    /\ pc' = "rp_exit"
    /\ UNCHANGED <<pdf, STOPWORDS, temp_exists, skills, parseVars, exc, log, bboxVars, tableVars, harnessVars>>

Next ==
    \/ RP_Import \/ RP_WriteTemp \/ EFP_Import
    \/ PDH_TablesOpen \/ PDH_TablesPage \/ PDH_CountTables
    \/ PDH_TextOpen \/ PDH_TextPage \/ PDH_CountText
    \/ PDH_PageCount \/ PDH_MergePage \/ PDH_Result \/ PDH_Except
    \/ EFP_Skills \/ RP_Except \/ RP_Unlink \/ RP_Return

Spec == Init /\ [][Next]_vars

(***************************************************************************)
(* Properties of the request                                               *)
(***************************************************************************)

\* The parse has returned (to extract_from_pdf) in this state
ParseReturned == result # NoResult

\* The elements of all_content that carry page number q
ElementsOfPage(q) == SelectSeq(all_content, LAMBDA e : e.page = q)

\* The content items of page number q in the order of their detection: the
\* text blocks of the page in block order, then its tables
Detected(q) ==
    [i \in 1..Len(GetList(page_text_blocks, q - 1)) |->
        [content |-> GetList(page_text_blocks, q - 1)[i].content,
         bbox |-> GetList(page_text_blocks, q - 1)[i].bbox]]
    \o [i \in 1..Len(GetList(page_tables, q - 1)) |->
        [content |-> GetList(page_tables, q - 1)[i].content,
         bbox |-> GetList(page_tables, q - 1)[i].bbox]]

DetectionIndex(e) ==
    LET d == Detected(e.page)
        hits == {i \in 1..Len(d) : d[i].content = e.content /\ d[i].bbox = e.bbox}
    IN  IF hits = {} THEN 0 ELSE CHOOSE i \in hits : \A j \in hits : i <= j

\* C1: in the assembled list, consecutive elements are in non-decreasing
\* (page, y_position) order, and elements of one page at the same y_position
\* keep the order of their detection.
C1_DocumentOrder ==
    \A k \in 1..(Len(all_content) - 1) :
        LET a == all_content[k]
            b == all_content[k + 1]
        IN  \/ a.page < b.page
            \/ a.page = b.page /\ a.y_position < b.y_position
            \/ /\ a.page = b.page /\ a.y_position = b.y_position
               /\ DetectionIndex(a) # 0
               /\ DetectionIndex(a) < DetectionIndex(b)

\* C1 witness: a two-page document is assembled whose first page was detected
\* out of order and holds two blocks at one height, and whose second page holds
\* a block and a table at one height.
C1_Witness ==
    /\ pc = "render"
    /\ pdf.pages = <<TextPage, TablePage>>
    /\ Len(all_content) = 7
    /\ \E k \in 1..6 : /\ all_content[k].page = 2
                        /\ all_content[k].y_position = all_content[k + 1].y_position
                        /\ all_content[k + 1].type = "table"
    /\ \E i, j \in 1..Len(page_text_blocks[0]) :
            i < j /\ page_text_blocks[0][i].y_position > page_text_blocks[0][j].y_position

\* The table extractor fails entirely: its handler of lines 183-184 runs before
\* any page has given a table, because pdfplumber.open raises or because
\* page.find_tables raises on the first page; it returns the empty dict.
TableExtractorFailsEntirely ==
    \/ pdf.plumber = "open_raises"
    \/ pdf.plumber = "ok" /\ pdf.find_tables_raises = 1

\* The text extractor fails entirely: its handler of lines 314-315 runs before
\* any page has given a block, because fitz.open raises or because
\* page.get_text raises on the first page; it returns the empty dict.
TextExtractorFailsEntirely ==
    \/ ~pdf.fitz_opens
    \/ pdf.get_text_raises = 1

BothExtractorsFailEntirely ==
    TableExtractorFailsEntirely /\ TextExtractorFailsEntirely

IsFailureVariant(r) ==
    /\ r.total_pages = 0
    /\ "error" \in DOMAIN r.metadata
    /\ r.metadata.error # ""

\* C2: when both extractors fail entirely on the input, parse_document_hybrid
\* returns a result with total_pages = 0 and a populated metadata.error, and no
\* exception leaves it.
C2_TotalFailureIsReported ==
    BothExtractorsFailEntirely =>
        /\ ParseReturned => IsFailureVariant(result)
        /\ ~(pc = "rp_except" /\ exc = "FileDataError")

\* C3: no exception raised in the body of parse_document_hybrid leaves it: each
\* yields the failure variant (total_pages 0, empty content, all counts 0, an
\* error field), and a result that is not the failure variant has no error field.
C3_ExceptionsBecomeFailureVariant ==
    /\ pc = "rp_except" => exc = "RuntimeError"
    /\ pc # "pdh_raised" => exc \in {"", "RuntimeError"}
    /\ ParseReturned =>
          IF ~pdf.fitz_opens
          THEN /\ result.total_pages = 0
               /\ result.content = <<>>
               /\ result.metadata =
                      [total_elements |-> 0, text_elements |-> 0, table_elements |-> 0,
                       pages_processed |-> 0, characters_extracted |-> 0,
                       error |-> "FileDataError"]
          ELSE "error" \notin DOMAIN result.metadata

\* C3 witness: tables were extracted, then fitz.open raised in the body, and
\* the returned failure variant counts no table.
C3_Witness ==
    /\ pc = "efp_skills"
    /\ ~pdf.fitz_opens
    /\ total_tables > 0
    /\ result.parsing_method = "hybrid_error"
    /\ result.metadata.table_elements = 0

\* What a page contributes when both extractors process it
FullPageContent(q) ==
    LET tables == page_tables_of(pdf.pages[q])
    IN  merge_page_content(q - 1, page_text_blocks_of(pdf.pages[q], tables), tables)

\* C4 (as claimed): when an extractor raises while it processes page k of a
\* document both libraries have opened, every page other than k still
\* contributes its tables and text blocks to the assembled document.
C4_OtherPagesStillContribute ==
    (pc = "render" /\ pdf.plumber = "ok" /\ pdf.fitz_opens) =>
        \A q \in 1..Len(pdf.pages) :
            (q # pdf.find_tables_raises /\ q # pdf.get_text_raises)
                => ElementsOfPage(q) = FullPageContent(q)

\* C5 (as claimed): when the handler exits, the temporary file is gone.
C5_TempFileRemovedOnExit ==
    pc = "rp_exit" => ~temp_exists

\* C6: extract_from_pdf returns extract_skills_from_text of the content of the
\* parse result; for the failure variant that is the empty list, and the
\* endpoint answers 200 with an empty extracted_skills.
C6_FailedParseGivesEmptySkills ==
    /\ pc \in {"rp_unlink", "rp_return"} =>
          skills = extract_skills_from_text(result.content)
    /\ (ParseReturned /\ result.parsing_method = "hybrid_error") =>
          /\ pc # "rp_except"
          /\ pc \in {"rp_unlink", "rp_return", "rp_exit"} => skills = <<>>
          /\ pc = "rp_exit" => response = [status |-> 200, extracted_skills |-> <<>>]

\* C6 witness: a request whose parse failed has been answered.
C6_Witness ==
    /\ pc = "rp_exit"
    /\ result.parsing_method = "hybrid_error"
    /\ Len(pdf.pages) > 0
    /\ response.status = 200
    /\ response.extracted_skills = <<>>

(***************************************************************************)
(* merge_page_content called on its own                                    *)
(***************************************************************************)

\* Largest number of text blocks and of tables handed to merge_page_content
MaxBlocks == 3
MaxMergeTables == 2

\* The y positions the inputs are drawn from
MergeYs == {10, 30, 50}

\* The i-th text block of the input, at height y; the third one is a dict
\* without the optional keys font_size and is_bold
TextBlockAt(i, y) ==
    IF i = 3
    THEN [content |-> <<"t">> \o Decimal(i), type |-> "text",
          bbox |-> <<0, y, 100, y + 10>>, y_position |-> y]
    ELSE [content |-> <<"t">> \o Decimal(i), type |-> IF i = 1 THEN "heading" ELSE "text",
          bbox |-> <<0, y, 100, y + 10>>, y_position |-> y,
          font_size |-> <<12, 1>>, is_bold |-> (i = 1), block_number |-> i - 1]

\* The i-th table of the input, at height y
TableAt(i, y) ==
    [content |-> <<"T">> \o Decimal(i), type |-> "table",
     bbox |-> <<0, y, 100, y + 10>>, y_position |-> y, rows |-> 3, cols |-> 2]

YSeqs(n) == UNION {[1..m -> MergeYs] : m \in 0..n}

MergeInit ==
    /\ in_page_num \in {0, 1}
    /\ in_text_blocks \in {[i \in 1..Len(ys) |-> TextBlockAt(i, ys[i])] : ys \in YSeqs(MaxBlocks)}
    /\ in_tables \in {[i \in 1..Len(ys) |-> TableAt(i, ys[i])] : ys \in YSeqs(MaxMergeTables)}
    /\ out_page_content = <<>>
    /\ in_text = <<>> /\ in_page = [blocks |-> <<>>] /\ in_tables_on_page = <<>>
    /\ out_text_blocks = <<>>
    /\ pc = "merge_call"
    /\ bbox1 = <<>> /\ bbox2 = <<>> /\ overlap_threshold = <<1, 2>>
    /\ overlap_result = FALSE
    /\ cleaned_data = <<>> /\ valid_result = FALSE
    /\ StepIdle
    /\ STOPWORDS = {}
    /\ MainIdle

MergePageContent ==
    /\ pc = "merge_call"
    /\ pc' = "merge_return"
    /\ out_page_content' = merge_page_content(in_page_num, in_text_blocks, in_tables)
    /\ UNCHANGED <<in_page_num, in_text_blocks, in_tables, in_text, in_page,
                   in_tables_on_page, out_text_blocks, stepVars, bboxVars, tableVars,
                   mainVars>>

MergeNext == MergePageContent

SpecMerge == MergeInit /\ [][MergeNext]_vars

\* The inputs of the call in the order they were given: text blocks, then tables
MergeInputs == in_text_blocks \o in_tables

\* The input that element k of the returned list was made from (0 for none)
InputOf(k) ==
    LET hits == {i \in 1..Len(MergeInputs) :
                    /\ MergeInputs[i].content = out_page_content[k].content
                    /\ MergeInputs[i].y_position = out_page_content[k].y_position
                    /\ MergeInputs[i].bbox = out_page_content[k].bbox
                    /\ (i > Len(in_text_blocks)) = (out_page_content[k].type = "table")
                    /\ (i <= Len(in_text_blocks)) => out_page_content[k].type = MergeInputs[i].type}
    IN  IF Cardinality(hits) = 1 THEN CHOOSE i \in hits : TRUE ELSE 0

\* C11: merge_page_content returns one element per input text block and table
\* (every input exactly once), each tagged page = page_num + 1, in ascending
\* y_position, equal positions in the order of the inputs.
C11_MergeIsStableSortedPermutation ==
    pc = "merge_return" =>
        /\ Len(out_page_content) = Len(MergeInputs)
        /\ \A k \in 1..Len(out_page_content) :
              /\ InputOf(k) # 0
              /\ out_page_content[k].page = in_page_num + 1
        /\ {InputOf(k) : k \in 1..Len(out_page_content)} = 1..Len(MergeInputs)
        /\ \A k, l \in 1..Len(out_page_content) :
              k < l =>
                \/ out_page_content[k].y_position < out_page_content[l].y_position
                \/ /\ out_page_content[k].y_position = out_page_content[l].y_position
                   /\ InputOf(k) < InputOf(l)

\* C11 witness: text blocks at y = 50, 10, 30 and no tables are returned in the
\* order y = 10, 30, 50.
C11_Witness ==
    /\ pc = "merge_return"
    /\ in_tables = <<>>
    /\ [i \in 1..Len(in_text_blocks) |-> in_text_blocks[i].y_position] = <<50, 10, 30>>
    /\ [k \in 1..Len(out_page_content) |-> out_page_content[k].y_position] = <<10, 30, 50>>
    /\ [k \in 1..Len(out_page_content) |-> out_page_content[k].content]
          = << <<"t", "2">>, <<"t", "3">>, <<"t", "1">> >>

(***************************************************************************)
(* extract_skills_from_text called on its own                              *)
(***************************************************************************)

\* Largest number of items of a generated list line
MaxItems == 3

\* The items of the generated lists: a token in two spellings, tokens with
\* punctuation, short tokens, stopwords, a wrapped token and a number
SkillItems ==
    {<<"P", "y", "t", "h", "o", "n">>,
     <<"p", "y", "t", "h", "o", "n">>,
     <<"A", "W", "S">>,
     <<"C", "+", "+">>,
     <<"G", "o">>,
     <<"R">>,
     <<"a", "n", "d">>,
     <<"(", ".", "N", "E", "T", ")", "!">>,
     <<"3">>}

\* What a generated text starts with: inline cues, a heading on its own line,
\* a line start that is no cue, and nothing
SkillCues ==
    {<<"T", "e", "c", "h", " ", "S", "t", "a", "c", "k", ":", " ">>,
     <<"S", "k", "i", "l", "l", "s", ":", " ">>,
     <<"s", "k", "i", "l", "l", "s", " ", "-", " ">>,
     <<"S", "k", "i", "l", "l", "s", "\n">>,
     <<"M", "y", " ", "t", "o", "o", "l", "s", ":", " ">>,
     <<>>}

ExampleTechStackLine ==
    <<"T", "e", "c", "h", " ", "S", "t", "a", "c", "k", ":", " ", "P", "y", "t", "h", "o", "n", ",", " ", "A", "W", "S", ",", " ", "D", "o", "c", "k", "e", "r", ",", " ", "C", "+", "+">>
ExampleStopwords ==
    <<"S", "k", "i", "l", "l", "s", ":", " ", "a", "n", "d", ",", " ", "w", "i", "t", "h", ",", " ", "G", "o">>
ExampleShortTokens ==
    <<"S", "k", "i", "l", "l", "s", ":", " ", "G", "o", ",", " ", "R", ",", " ", "C">>
ExampleEmptyText ==
    <<>>
ExampleTwoLines ==
    <<"S", "k", "i", "l", "l", "s", ":", " ", "g", "o", "\n", "T", "e", "c", "h", " ", "S", "t", "a", "c", "k", ":", " ", "G", "o", ",", " ", "R", "u", "s", "t", ",", " ", "G", "O">>
ExampleNoCue ==
    <<"S", "u", "m", "m", "a", "r", "y", "\n", "P", "y", "t", "h", "o", "n", " ", "/", " ", "A", "W", "S", ";", " ", "G", "o">>
ExampleHeadingBlock ==
    <<"S", "k", "i", "l", "l", "s", "\n", "N", "o", "d", "e", ".", "j", "s", "|", "C", "#", "\n", "\n", "J", "a", "v", "a">>
ExampleSingleLetters ==
    <<"T", "o", "o", "l", "s", ":", " ", "x", ",", " ", "a", ",", " ", "C", ",", " ", "c", "1">>

ExampleTexts ==
    {ExampleTechStackLine, ExampleStopwords, ExampleShortTokens, ExampleEmptyText,
     ExampleTwoLines, ExampleNoCue, ExampleHeadingBlock, ExampleSingleLetters}

ItemSeqs(n) == UNION {[1..m -> SkillItems] : m \in 0..n}

\* A cue followed by the items joined with ", "
SkillTexts ==
    {cue \o Join(<<",", " ">>, its) : cue \in SkillCues, its \in ItemSeqs(MaxItems)}
    \cup ExampleTexts

SkillsInit ==
    /\ in_text \in SkillTexts
    /\ pc = "skills_call"
    /\ in_page = [blocks |-> <<>>] /\ in_tables_on_page = <<>> /\ out_text_blocks = <<>>
    /\ in_page_num = 0 /\ in_text_blocks = <<>> /\ in_tables = <<>>
    /\ out_page_content = <<>>
    /\ bbox1 = <<>> /\ bbox2 = <<>> /\ overlap_threshold = <<1, 2>>
    /\ overlap_result = FALSE
    /\ cleaned_data = <<>> /\ valid_result = FALSE
    /\ StepIdle
    /\ STOPWORDS \in StopwordBindings
    /\ MainIdle

ExtractSkills ==
    /\ pc = "skills_call"
    /\ pc' = "skills_return"
    /\ skills' = extract_skills_from_text(in_text)
    /\ UNCHANGED <<pdf, STOPWORDS, temp_exists, response, parseVars, exc, log, harnessVars,
                   bboxVars, tableVars>>

SkillsNext == ExtractSkills

SpecSkills == SkillsInit /\ [][SkillsNext]_vars

\* The items of the candidate strings of in_text in document order, each
\* trimmed of the characters a token may not begin or end with
Occurrences ==
    LET parts == parts_of(scan_candidates(stripped_lines(splitlines(in_text)), 1))
    IN  [i \in 1..Len(parts) |-> _token_clean(parts[i])]

EqualIgnoringCase(a, b) ==
    /\ Len(a) = Len(b)
    /\ \A k \in 1..Len(a) : LowerCh(a[k]) = LowerCh(b[k])

\* Index of the first item of occ that equals t ignoring case (0 for none)
FirstOccurrenceIn(occ, t) ==
    LET hits == {i \in 1..Len(occ) : EqualIgnoringCase(occ[i], t)}
    IN  IF hits = {} THEN 0 ELSE CHOOSE i \in hits : \A j \in hits : i <= j

\* Index of the first occurrence that equals t ignoring case (0 for none)
FirstOccurrence(t) == FirstOccurrenceIn(Occurrences, t)

\* C12: the returned tokens are pairwise different ignoring case, each is
\* written as its first occurrence in the text is, and they stand in the order
\* of their first occurrences.
C12_DistinctInFirstSeenFormAndOrder ==
    pc = "skills_return" =>
        /\ \A k, l \in 1..Len(skills) :
              k # l => ~EqualIgnoringCase(skills[k], skills[l])
        /\ \A k \in 1..Len(skills) :
              /\ FirstOccurrence(skills[k]) # 0
              /\ Occurrences[FirstOccurrence(skills[k])] = skills[k]
        /\ \A k, l \in 1..Len(skills) :
              k < l => FirstOccurrence(skills[k]) < FirstOccurrence(skills[l])
        /\ in_text = ExampleTechStackLine =>
              skills = << <<"P", "y", "t", "h", "o", "n">>, <<"A", "W", "S">>,
                          <<"D", "o", "c", "k", "e", "r">>, <<"C", "+", "+">> >>

\* C12 witness: a token written in three spellings on two lines is returned
\* once, as first written, before a token that first occurs after it.
C12_Witness ==
    /\ pc = "skills_return"
    /\ in_text = ExampleTwoLines
    /\ skills = << <<"g", "o">>, <<"R", "u", "s", "t">> >>

\* The set of the elements of a list
ElementsOf(list) == {list[k] : k \in 1..Len(list)}

\* C13 (as claimed): the tokens returned for in_text, joined with ", " and given
\* to extract_skills_from_text again, yield the same set of tokens.
C13_RefeedingYieldsSameTokens ==
    pc = "skills_return" =>
        ElementsOf(extract_skills_from_text(Join(<<",", " ">>, skills))) = ElementsOf(skills)

\* The characters a token may begin and end with
TokenEdgeChars == UpperSet \cup LowerSet \cup DigitSet \cup {"#", "+", ".", "/", "-"}

\* Every returned token is non-empty, begins and ends with a letter, a digit
\* or one of # + . / -, holds a letter, and its lowercase form is not in the
\* set STOPWORDS is bound to
ReturnedTokensAreClean ==
    \A k \in 1..Len(skills) :
        /\ Len(skills[k]) > 0
        /\ skills[k][1] \in TokenEdgeChars
        /\ skills[k][Len(skills[k])] \in TokenEdgeChars
        /\ \E i \in 1..Len(skills[k]) : skills[k][i] \in UpperSet \cup LowerSet
        /\ [i \in 1..Len(skills[k]) |-> LowerCh(skills[k][i])] \notin STOPWORDS

\* C14: every returned token is non-empty, begins and ends with a letter, a
\* digit or one of # + . / -, holds a letter, and its lowercase form is no
\* stopword; "Skills: and, with, Go" yields exactly Go.
C14_TokensAreCleanAndNoStopwords ==
    pc = "skills_return" =>
        /\ ReturnedTokensAreClean
        /\ in_text = ExampleStopwords => skills = << <<"G", "o">> >>

\* The short tokens the acceptance heuristic is said to keep
ShortSkillTokens == {<<"G", "o">>, <<"R">>, <<"C">>}

\* C15 (as claimed): Go, R and C are kept when they are items of a skills
\* list: each such item is among the returned tokens, in some spelling.
C15_ShortTokensAreKept ==
    pc = "skills_return" =>
        \A i \in 1..Len(Occurrences) :
            Occurrences[i] \in ShortSkillTokens =>
                \E k \in 1..Len(skills) : EqualIgnoringCase(skills[k], Occurrences[i])

\* No line of the text starts with a heading word of heading_re, in any case,
\* and no line holds "tech" followed by "stack"
NoCue(t) ==
    \A l \in 1..Len(stripped_lines(splitlines(t))) :
        LET line == stripped_lines(splitlines(t))[l]
        IN  /\ \A a \in 1..Len(HeadingAltEnds(line)) : HeadingAltEnds(line)[a] = 0
            /\ \A pos \in 1..Len(line) : TwoWordsEnd(line, pos, W_tech, W_stack) = 0

\* C16: for the empty text and for every text without a skills or tech-stack
\* cue, extract_skills_from_text returns the empty list.
C16_NoCueGivesEmptyList ==
    (pc = "skills_return" /\ (in_text = <<>> \/ NoCue(in_text))) => skills = <<>>

\* C16 witness: a text of two lines that lists skills under a heading that is
\* no cue has been answered with the empty list.
C16_Witness ==
    /\ pc = "skills_return"
    /\ in_text = ExampleNoCue
    /\ NoCue(in_text)
    /\ skills = <<>>

\* C17 (as claimed): when the document opens but has no pages, the parse
\* returns the failure variant: total_pages 0, empty content, an error field.
C17_ZeroPagesIsReportedAsError ==
    (ParseReturned /\ pdf.fitz_opens /\ Len(pdf.pages) = 0) =>
        /\ result.content = <<>>
        /\ IsFailureVariant(result)

(***************************************************************************)
(* The page loop body of extract_text_with_pymupdf called on its own       *)
(***************************************************************************)

\* Largest number of spans of the line of the generated block
MaxSpans == 2

\* The bounding boxes of the two tables a generated page may hold
TableBoxA == <<0, 0, 4, 4>>
TableBoxB == <<4, 4, 8, 8>>

\* The bounding boxes of the generated block: equal to table A, covering one
\* half, one quarter and three quarters of it, touching both tables, holding
\* both, inside A, covering one half of each, one quarter of each, away from
\* both, and the degenerate default box of line 281
BlockBoxes ==
    {<<0, 0, 4, 4>>, <<2, 0, 6, 4>>, <<3, 0, 7, 4>>, <<1, 0, 5, 4>>, <<4, 0, 8, 4>>,
     <<0, 0, 8, 8>>, <<1, 1, 2, 2>>, <<0, 2, 8, 6>>, <<0, 3, 8, 5>>, <<8, 8, 9, 9>>,
     <<0, 0, 0, 0>>}

\* Spans: plain, italic (bit 1), bold (bit 4) and bold italic text of three
\* sizes, and a blank span that is bold and large
SpanKinds ==
    {[text |-> <<"A", "b">>, flags |-> f, size |-> z] : f \in {0, 2, 16, 18}, z \in {12, 14, 16}}
    \cup {[text |-> <<" ">>, flags |-> 16, size |-> 30]}

SpanSeqs(n) == UNION {[1..m -> SpanKinds] : m \in 1..n}

\* A block of one line that lies below both tables
FooterBlock ==
    [has_lines |-> TRUE,
     lines |-> << <<[text |-> <<"F", "o", "o", "t">>, flags |-> 0, size |-> 9]>> >>,
     bbox |-> <<0, 8, 8, 9>>]

TableWithBox(b) ==
    [content |-> <<"|">>, type |-> "table", bbox |-> b, y_position |-> b[2],
     rows |-> 3, cols |-> 2]

TextInit ==
    /\ in_page \in {[blocks |-> <<[has_lines |-> TRUE, lines |-> <<spans>>, bbox |-> b],
                                   FooterBlock>>] :
                        spans \in SpanSeqs(MaxSpans), b \in BlockBoxes}
    /\ in_tables_on_page \in {<<>>, <<TableWithBox(TableBoxA)>>, <<TableWithBox(TableBoxB)>>,
                               <<TableWithBox(TableBoxA), TableWithBox(TableBoxB)>>}
    /\ out_text_blocks = <<>>
    /\ pc = "text_call"
    /\ in_text = <<>>
    /\ in_page_num = 0 /\ in_text_blocks = <<>> /\ in_tables = <<>>
    /\ out_page_content = <<>>
    /\ bbox1 = <<>> /\ bbox2 = <<>> /\ overlap_threshold = <<1, 2>>
    /\ overlap_result = FALSE
    /\ cleaned_data = <<>> /\ valid_result = FALSE
    /\ StepIdle
    /\ STOPWORDS = {}
    /\ MainIdle

ExtractPageText ==
    /\ pc = "text_call"
    /\ pc' = "text_return"
    /\ out_text_blocks' = page_text_blocks_of(in_page, in_tables_on_page)
    /\ UNCHANGED <<in_page, in_tables_on_page, in_text, in_page_num, in_text_blocks,
                   in_tables, out_page_content, stepVars, bboxVars, tableVars,
                   mainVars>>

TextNext == ExtractPageText

SpecText == TextInit /\ [][TextNext]_vars

\* The unit cells inside box b, counted one by one
CellsOf(b) == (b[1]..(b[3] - 1)) \X (b[2]..(b[4] - 1))

SmallerCellCount(a, b) == Min2(Cardinality(CellsOf(a)), Cardinality(CellsOf(b)))
SharedCellCount(a, b) == Cardinality(CellsOf(a) \cap CellsOf(b))

\* More than half of the smaller of the two areas is shared
MoreThanHalfCovered(a, b) ==
    SharedCellCount(a, b) > 0 /\ 2 * SharedCellCount(a, b) > SmallerCellCount(a, b)

\* Half or more of the smaller of the two areas is shared
HalfOrMoreCovered(a, b) ==
    SharedCellCount(a, b) > 0 /\ 2 * SharedCellCount(a, b) >= SmallerCellCount(a, b)

\* The raw block has text after the stripping of lines 265-280
HasInk(block) == block.has_lines /\ Truthy(strip(block_text_of(block)))

\* Raw block number n of the page is among the returned text blocks
Survives(n) == \E i \in 1..Len(out_text_blocks) : out_text_blocks[i].block_number = n

TableBoxesOnPage == {in_tables_on_page[t].bbox : t \in 1..Len(in_tables_on_page)}

\* C18 as stated: with the threshold 0.5 a text block with text is dropped only
\* if more than half of the smaller of the two areas is shared with a table
\* of the page, so a block sharing exactly one half or less is kept.
C18_DroppedOnlyIfOverHalfCovered ==
    (pc = "text_return" /\ HasInk(in_page.blocks[1]) /\ ~Survives(0)) =>
        \E tb \in TableBoxesOnPage : MoreThanHalfCovered(in_page.blocks[1].bbox, tb)

\* C18 corrected: with the threshold 0.5 a text block with text is dropped only
\* if half or more of the smaller of the two areas is shared with a table of
\* the page, so a block sharing less than one half with every table is kept.
C18_DroppedOnlyIfHalfOrMoreCovered ==
    (pc = "text_return" /\ HasInk(in_page.blocks[1]) /\ ~Survives(0)) =>
        \E tb \in TableBoxesOnPage : HalfOrMoreCovered(in_page.blocks[1].bbox, tb)

\* A block with text that shares exactly one half with a table, and more than
\* half with none, was dropped.
C18_Witness ==
    /\ pc = "text_return"
    /\ HasInk(in_page.blocks[1])
    /\ ~Survives(0)
    /\ \E tb \in TableBoxesOnPage : HalfOrMoreCovered(in_page.blocks[1].bbox, tb)
    /\ \A tb \in TableBoxesOnPage : ~MoreThanHalfCovered(in_page.blocks[1].bbox, tb)

\* The text extractor has left its page loop; page_num counts the pages whose
\* blocks it has read
TextExtractorDone == pc = "text_done"

\* The text elements of page p that come from raw block number n
ElementsOfBlock(p, n) ==
    {i \in 1..Len(GetList(page_text_blocks, p)) :
        GetList(page_text_blocks, p)[i].block_number = n}

\* The bounding boxes of the tables accepted on page p
AcceptedTableBoxes(p) ==
    {GetList(page_tables, p)[t].bbox : t \in 1..Len(GetList(page_tables, p))}

\* The bounding boxes of all table candidates the detector reports on page p
CandidateBoxes(p) ==
    {pdf.pages[p + 1].tables[t].bbox : t \in 1..Len(pdf.pages[p + 1].tables)}

OverlapsSome(box, boxes) ==
    \E tb \in boxes : _bbox_overlap(box, tb, TableOverlapThreshold)

\* C19: for every page p the text extractor has read, a raw block with
\* non-blank text is among the text elements of page p, once, exactly when it
\* overlaps (threshold 0.5) no bounding box of a table accepted on page p;
\* tables of other pages and rejected candidates play no part.
C19_KeptIffNoAcceptedTableOfSamePageOverlaps ==
    TextExtractorDone =>
        \A p \in 0..(page_num - 1) :
            \A b \in 1..Len(pdf.pages[p + 1].blocks) :
                HasInk(pdf.pages[p + 1].blocks[b]) =>
                    Cardinality(ElementsOfBlock(p, b - 1)) =
                        IF OverlapsSome(pdf.pages[p + 1].blocks[b].bbox,
                                            AcceptedTableBoxes(p))
                            THEN 0 ELSE 1

\* One block was dropped for the table of its page while a block of another
\* page that overlaps the same table was kept.
C19_Witness ==
    /\ TextExtractorDone
    /\ \E p, q \in 0..(page_num - 1) :
         /\ p # q
         /\ \E b \in 1..Len(pdf.pages[p + 1].blocks) :
              /\ HasInk(pdf.pages[p + 1].blocks[b])
              /\ OverlapsSome(pdf.pages[p + 1].blocks[b].bbox, AcceptedTableBoxes(p))
              /\ ElementsOfBlock(p, b - 1) = {}
         /\ \E b \in 1..Len(pdf.pages[q + 1].blocks) :
              /\ HasInk(pdf.pages[q + 1].blocks[b])
              /\ OverlapsSome(pdf.pages[q + 1].blocks[b].bbox, AcceptedTableBoxes(p))
              /\ ElementsOfBlock(q, b - 1) # {}

\* A block that overlaps a rejected candidate of its own page was kept.
RejectedCandidateIsIgnored ==
    /\ TextExtractorDone
    /\ \E p \in 0..(page_num - 1) :
         \E b \in 1..Len(pdf.pages[p + 1].blocks) :
            /\ HasInk(pdf.pages[p + 1].blocks[b])
            /\ OverlapsSome(pdf.pages[p + 1].blocks[b].bbox,
                            CandidateBoxes(p) \ AcceptedTableBoxes(p))
            /\ ElementsOfBlock(p, b - 1) # {}

\* The positions <<line, span>> of the spans of a raw block that carry text
SpansWithText(block) ==
    UNION {{<<l, k>> : k \in {j \in 1..Len(block.lines[l]) :
                                    Truthy(strip(block.lines[l][j].text))}} :
                l \in 1..Len(block.lines)}

\* Some span with text has the bold bit (value 16) in its flags
HasBoldSpan(block) ==
    \E lk \in SpansWithText(block) : (block.lines[lk[1]][lk[2]].flags \div 16) % 2 = 1

\* The sum of the font sizes of the spans with text
SizeTotal(block) ==
    SumOver([lk \in SpansWithText(block) |-> block.lines[lk[1]][lk[2]].size],
            SpansWithText(block))

\* The role the classification rule gives to a raw block with text: the average
\* size exceeds 14 exactly when the sum exceeds 14 times the number of spans
RoleByRule(block) ==
    IF HasBoldSpan(block) /\ SizeTotal(block) > 14 * Cardinality(SpansWithText(block))
    THEN "heading"
    ELSE IF HasBoldSpan(block) THEN "subheading"
    ELSE "text"

\* C20: every surviving text block has exactly one role: heading if it is
\* bold and its average font size is greater than 14, subheading if it is bold
\* and its average font size is at most 14, and "text" if it is not bold,
\* whatever its font size.
C20_RoleFromBoldAndAverageSize ==
    pc = "text_return" =>
        \A i \in 1..Len(out_text_blocks) :
            /\ out_text_blocks[i].type \in {"heading", "subheading", "text"}
            /\ out_text_blocks[i].type =
                    RoleByRule(in_page.blocks[out_text_blocks[i].block_number + 1])

\* A surviving block of a bold span of size 12 and a plain span of size 16 has
\* the average 14 and is a subheading; the plain block after it is "text".
C20_Witness ==
    /\ pc = "text_return"
    /\ Len(out_text_blocks) = 2
    /\ HasBoldSpan(in_page.blocks[1])
    /\ Cardinality(SpansWithText(in_page.blocks[1])) = 2
    /\ \E lk \in SpansWithText(in_page.blocks[1]) :
            in_page.blocks[1].lines[lk[1]][lk[2]].flags = 0
    /\ SizeTotal(in_page.blocks[1]) = 28
    /\ out_text_blocks[1].type = "subheading"
    /\ out_text_blocks[2].type = "text"

\* A surviving block that is bold with an average size above 14 next to one
\* that is not bold
HeadingOfMixedSizesReached ==
    /\ pc = "text_return"
    /\ Len(out_text_blocks) = 2
    /\ out_text_blocks[1].type = "heading"
    /\ \E lk \in SpansWithText(in_page.blocks[1]) :
            in_page.blocks[1].lines[lk[1]][lk[2]].size = 14

(***************************************************************************)
(* The scan loop of extract_skills_from_text, one iteration per step       *)
(***************************************************************************)

\* Largest number of lines of a scanned text
MaxLines == 3

\* A heading word alone
LineHeadingWord == <<"S", "k", "i", "l", "l", "s">>
\* A heading word in lower case
LineHeadingLower == <<"t", "o", "o", "l", "s">>
\* A heading word and a separator
LineHeadingColon == <<"T", "e", "c", "h", " ", "S", "t", "a", "c", "k", ":">>
\* A heading word, a separator and a rest
LineInline == <<"S", "k", "i", "l", "l", "s", ":", " ", "G", "o", ",", " ", "R", "2">>
\* An inline heading that also holds an embedded label
LineInlineAndEmbedded == <<"T", "o", "o", "l", "s", ":", " ", "G", "o", ",", " ", "T", "e", "c", "h", " ", "S", "t", "a", "c", "k", ":", " ", "R", "u", "s", "t">>
\* An embedded label
LineEmbedded == <<"M", "y", " ", "t", "e", "c", "h", " ", "s", "t", "a", "c", "k", ":", " ", "C", "+", "+">>
\* A heading word followed by words without ':' or '-'
LineHeadingThenWords == <<"S", "k", "i", "l", "l", "s", " ", "P", "y", "t", "h", "o", "n", " ", "J", "a", "v", "a">>
\* List items
LineItems == <<"P", "y", "t", "h", "o", "n", ",", " ", "A", "W", "S">>
\* List items in lower case
LineLowerItems == <<"g", "o", ";", " ", "r", "u", "s", "t">>
\* Capitalized words
LineNewHeading == <<"W", "o", "r", "k", " ", "E", "x", "p", "e", "r", "i", "e", "n", "c", "e">>
\* A blank line
LineBlank == <<>>
\* A line of spaces
LineSpaces == <<" ", " ">>
\* Capitalized lines of one word with 40 and with 41 characters
LineOf40 == <<"A">> \o Rep("b", 39)
LineOf41 == <<"A">> \o Rep("b", 40)

ScanLineKinds ==
    {LineHeadingWord, LineHeadingLower, LineHeadingColon, LineInline, LineInlineAndEmbedded,
     LineEmbedded, LineHeadingThenWords, LineItems, LineLowerItems,
     LineNewHeading, LineBlank, LineSpaces,
     LineOf40, LineOf41}

RECURSIVE LineSeqs(_)
\* The sequences of n lines
LineSeqs(n) ==
    IF n = 0 THEN {<<>>}
    ELSE {Append(q, l) : q \in LineSeqs(n - 1), l \in ScanLineKinds}

\* The texts of at most MaxLines lines, joined by line feeds
ScanTexts == {Join(<<"\n">>, q) : q \in UNION {LineSeqs(n) : n \in 0..MaxLines}}

ScanInit ==
    /\ in_text \in ScanTexts
    /\ pc = "scan_call"
    /\ in_page = [blocks |-> <<>>] /\ in_tables_on_page = <<>> /\ out_text_blocks = <<>>
    /\ in_page_num = 0 /\ in_text_blocks = <<>> /\ in_tables = <<>>
    /\ out_page_content = <<>>
    /\ bbox1 = <<>> /\ bbox2 = <<>> /\ overlap_threshold = <<1, 2>>
    /\ overlap_result = FALSE
    /\ cleaned_data = <<>> /\ valid_result = FALSE
    /\ StepIdle
    /\ STOPWORDS \in StopwordBindings
    /\ MainIdle

scanFrame == <<pdf, STOPWORDS, temp_exists, response, parseVars, exc, log, in_text, in_page,
               in_tables_on_page, out_text_blocks, in_page_num, in_text_blocks,
               in_tables, out_page_content, in_table, out_normalized_data,
               table_markdown, out_tables, in_data, bboxVars, tableVars>>

\* Lines 50-61: the early return for an empty text, or the set-up of the loop
ScanStart ==
    /\ pc = "scan_call"
    /\ IF ~Truthy(in_text)
       THEN /\ skills' = <<>>
            /\ pc' = "scan_return"
            /\ UNCHANGED <<sc_lines, sc_i, sc_candidates>>
       ELSE /\ sc_lines' = stripped_lines(splitlines(in_text))
            /\ sc_i' = 1
            /\ sc_candidates' = <<>>
            /\ pc' = "scan_loop"
            /\ UNCHANGED skills
    /\ UNCHANGED scanFrame

\* The assignments of one iteration whose outcome is step
ScanLineTo(step) ==
    /\ sc_i' = step.i
    /\ sc_candidates' = sc_candidates \o step.found

\* Lines 63-97: one iteration of the while loop
ScanLine ==
    /\ pc = "scan_loop"
    /\ sc_i <= Len(sc_lines)
    /\ ScanLineTo(scan_step(sc_lines, sc_i))
    /\ UNCHANGED <<pc, sc_lines, skills>>
    /\ UNCHANGED scanFrame

\* Lines 102-131: the loop has ended; the tokens of the candidates are returned
ScanCollect ==
    /\ pc = "scan_loop"
    /\ sc_i > Len(sc_lines)
    /\ skills' = collect_tokens(parts_of(sc_candidates), {}, <<>>)
    /\ pc' = "scan_return"
    /\ UNCHANGED <<sc_lines, sc_i, sc_candidates>>
    /\ UNCHANGED scanFrame

ScanNext == ScanStart \/ ScanLine \/ ScanCollect

SpecScan == ScanInit /\ [][ScanNext]_vars

\* A step of the function is possible until it has returned
ScanEnabled == pc # "scan_return"

\* The call runs on its own thread of control: it is not suspended for ever
\* while it can take a step. This is WF_vars(ScanNext) with ScanEnabled
\* written for ENABLED <<ScanNext>>_vars.
ScanRunsOn == []<>(~ScanEnabled) \/ []<><<ScanNext>>_vars

SpecScanFair == SpecScan /\ ScanRunsOn

\* The step-wise run returns what the function returns
ScanAgreesWithFunction ==
    pc = "scan_return" => skills = extract_skills_from_text(in_text)

\* The recognized heading words, in lower case
HeadingWords ==
    {W_skills, W_technical_skills, W_tech \o <<" ">> \o W_stack, W_techstack,
     W_technology \o <<" ">> \o W_stack, W_technologies, W_tools, W_skillset,
     W_technical_competencies}

\* The line consists of a heading word and nothing else
IsOnlyHeadingWord(line) == lower(line) \in HeadingWords

\* A line that looks like a new heading as the text describes it: it starts
\* with a capital, holds letters and spaces only, and has at most 40
\* characters and at most 4 words
LooksLikeNewHeading(l) ==
    /\ Len(l) >= 1 /\ Len(l) <= 40
    /\ l[1] \in UpperSet
    /\ \A k \in 1..Len(l) : IsLetter(l[k]) \/ l[k] = " "
    /\ WordCount(l) <= 4

\* The index of the first blank or heading-like line from index j on, or the
\* index after the last line
StatedBlockEnd(lines, j) ==
    LET stops == {k \in j..Len(lines) : lines[k] = <<>> \/ LooksLikeNewHeading(lines[k])}
    IN  IF stops = {} THEN Len(lines) + 1
        ELSE CHOOSE k \in stops : \A m \in stops : k <= m

\* The scanner is about to examine a line
Scanning == pc = "scan_loop" /\ sc_i <= Len(sc_lines)

\* C21: when the scanner examines a line that is only a heading word, the
\* lines after it up to, and excluding, the first blank line or the first line
\* that looks like a new heading (capitalized, at most 40 characters, at most
\* 4 words) are joined into exactly one candidate, and the scan goes on at
\* the line that ended the block.
C21_HeadingWordOpensBlock ==
    [][(Scanning /\ IsOnlyHeadingWord(sc_lines[sc_i])) =>
          /\ sc_i' = StatedBlockEnd(sc_lines, sc_i + 1)
          /\ sc_candidates' =
                sc_candidates \o
                (IF StatedBlockEnd(sc_lines, sc_i + 1) > sc_i + 1
                 THEN <<Join(<<" ">>, SubSeq(sc_lines, sc_i + 1,
                                            StatedBlockEnd(sc_lines, sc_i + 1) - 1))>>
                 ELSE <<>>)]_vars

\* The candidates the step from the current state appends
AppendedCandidates ==
    {sc_candidates'[k] : k \in (Len(sc_candidates) + 1)..Len(sc_candidates')}

\* C22: the embedded `tech stack : <rest>` pattern is checked on every
\* non-blank line independently of the inline heading match, so a line that
\* matches the leading inline heading pattern and also holds an embedded
\* label contributes both candidate strings.
C22_InlineAndEmbeddedBothContribute ==
    [][(/\ Scanning
        /\ inline_heading_match(sc_lines[sc_i]) # <<>>
        /\ techstack_line_search(sc_lines[sc_i]) # <<>>) =>
          /\ strip(inline_heading_match(sc_lines[sc_i])[1]) \in AppendedCandidates
          /\ strip(techstack_line_search(sc_lines[sc_i])[1]) \in AppendedCandidates]_vars

\* The heading words of the inline pattern, in lower case
InlineHeadingWords == HeadingWords \ {W_technical_competencies}

\* The line starts, ignoring case, with a heading word that is followed by a
\* run of separators holding at least one ':' or '-' and then by a rest
HasStatedInlineForm(line) ==
    \E w \in InlineHeadingWords :
        /\ WordAt(line, 1, w)
        /\ \E k \in (Len(w) + 1)..(Len(line) - 1) :
              /\ line[k] \in {":", "-"}
              /\ \A m \in (Len(w) + 1)..k : IsSepCh(line[m])

\* The line opens a heading block or holds an embedded tech stack label
IsHeadingOrEmbedded(line) ==
    \/ heading_match(line) \/ heading_match(lower(line))
    \/ techstack_line_search(line) # <<>>

\* C23: a line yields an inline-heading candidate only if it starts with a
\* heading word followed by one or more ':' or '-' and a non-empty rest; a
\* line whose heading word is followed only by whitespace and further words
\* yields no candidate.
C23_InlineNeedsColonOrDash ==
    [][(/\ Scanning
        /\ ~HasStatedInlineForm(sc_lines[sc_i])
        /\ ~IsHeadingOrEmbedded(sc_lines[sc_i])) =>
          sc_candidates' = sc_candidates]_vars

\* The line under examination opens a heading block: it carries neither an
\* inline heading nor an embedded label and is a heading word with separators
OpensBlock(line) ==
    /\ line # <<>>
    /\ inline_heading_match(line) = <<>>
    /\ techstack_line_search(line) = <<>>
    /\ heading_match(line) \/ heading_match(lower(line))

\* Line k ends a block: it is blank or looks like a new heading
EndsBlock(lines, k) == lines[k] = <<>> \/ looks_like_heading(lines[k])

\* c is the stripped end of the line
IsStrippedTailOf(c, line) ==
    \E k \in 1..Len(line) : c = strip(SubSeq(line, k, Len(line)))

\* One iteration: the index grows; a block step stops at the first line that
\* ends the block (or behind the last line) and joins the lines in between
\* into at most one candidate; any other step moves by one line and takes at
\* most one candidate from the end of that line.
IterationAdvances ==
    /\ sc_i' > sc_i
    /\ sc_i' <= Len(sc_lines) + 1
    /\ IF OpensBlock(sc_lines[sc_i])
       THEN /\ \A k \in (sc_i + 1)..(sc_i' - 1) : ~EndsBlock(sc_lines, k)
            /\ sc_i' = Len(sc_lines) + 1 \/ EndsBlock(sc_lines, sc_i')
            /\ sc_candidates' =
                  sc_candidates \o
                  (IF sc_i' > sc_i + 1
                   THEN <<Join(<<" ">>, SubSeq(sc_lines, sc_i + 1, sc_i' - 1))>>
                   ELSE <<>>)
       ELSE /\ sc_i' = sc_i + 1
            /\ \/ sc_candidates' = sc_candidates
               \/ \E c \in AppendedCandidates :
                     /\ sc_candidates' = Append(sc_candidates, c)
                     /\ IsStrippedTailOf(c, sc_lines[sc_i])

\* C30: the line scan terminates on every input; each iteration strictly
\* advances the line index; after a heading block the scan goes on at the
\* line that ended the block, so that line is examined next; and the lines an
\* iteration takes its candidate from are the lines it passes, so no line
\* contributes to more than one candidate.
C30_ScanAdvancesAndTerminates ==
    /\ [][(pc = "scan_loop" /\ pc' = "scan_loop") => IterationAdvances]_vars
    /\ <>(pc = "scan_return")

\* The scan stands at a heading word that ended the block of an earlier
\* heading word, after that block gave its candidate.
C30_Witness ==
    /\ pc = "scan_loop"
    /\ sc_i = 3
    /\ Len(sc_lines) >= 3
    /\ OpensBlock(sc_lines[1])
    /\ sc_candidates = <<sc_lines[2]>>
    /\ looks_like_heading(sc_lines[3])
    /\ OpensBlock(sc_lines[3])

(***************************************************************************)
(* Two runs of parse_document_hybrid compared page by page                 *)
(***************************************************************************)

\* page_tables.get(q - 1, []) at the end of extract_tables_with_pdfplumber in a
\* run on document d (q counts pages from 1): the loop reaches page q only if
\* pdfplumber opens the file and find_tables raised on no page up to q
run_tables(d, q) ==
    IF d.plumber = "ok" /\ (d.find_tables_raises = 0 \/ q < d.find_tables_raises)
    THEN page_tables_of(plumber_pages(d)[q])
    ELSE <<>>

\* page_text_blocks.get(q - 1, []) at the end of extract_text_with_pymupdf in a
\* run on document d
run_text_blocks(d, q) ==
    IF d.fitz_opens /\ (d.get_text_raises = 0 \/ q < d.get_text_raises)
    THEN page_text_blocks_of(d.pages[q], run_tables(d, q))
    ELSE <<>>

\* The elements line 447 produces for page q in a run on document d
run_page_content(d, q) ==
    merge_page_content(q - 1, run_text_blocks(d, q), run_tables(d, q))

\* The run in progress produced for each page what run_page_content gives
RunAgreesWithSteps ==
    pc = "render" =>
        \A q \in 1..Len(pdf.pages) : ElementsOfPage(q) = run_page_content(pdf, q)

\* Both libraries open document d and neither extractor raises on page q
PageIsRead(d, q) ==
    /\ d.plumber = "ok" /\ d.fitz_opens
    /\ d.find_tables_raises # q /\ d.get_text_raises # q

\* The documents of a second run whose page q is the page q of the first run
\* and is read as well; the other pages and what the extractors do on them
\* are free
RunsAgreeingOnPage(q) ==
    {d \in Documents :
        /\ WellFormedDocument(d)
        /\ Len(d.pages) >= q
        /\ d.pages[q] = pdf.pages[q]
        /\ PageIsRead(d, q)}

\* C24: the elements produced for page p depend only on the raw detector
\* output for page p: a second run whose raw tables and raw text spans agree
\* with the first on page p produces the same elements for page p, whatever
\* the raw output or the extractor outcome on the other pages.
C24_PageElementsDependOnThatPageOnly ==
    pc = "render" =>
        \A q \in 1..Len(pdf.pages) :
            PageIsRead(pdf, q) =>
                \A d \in RunsAgreeingOnPage(q) :
                    run_page_content(d, q) = ElementsOfPage(q)

(***************************************************************************)
(* extract_tables_with_pdfplumber, lines 128-178, step by step for one     *)
(* detected table                                                          *)
(***************************************************************************)

\* Largest number of rows table.extract() returns in the enumerated tables
MaxGateRows == 3

\* Raw cells of table.extract()
RawShort == <<"x">>
RawBlank == <<" ">>
RawSpaced == <<"a", "b", " ", "\f", "c", "d">>

\* Raw rows: full, short, with a blank first cell, with a None cell, without
\* any text, of three cells, empty, and with a cell of two words
GateRowKinds ==
    {<<RawShort, RawShort>>, <<RawShort>>, <<RawBlank, RawShort>>,
     <<RawSpaced, NoneCell>>, <<NoneCell, RawBlank>>,
     <<RawShort, RawShort, RawShort>>, <<>>, <<RawSpaced, RawShort>>}

RECURSIVE GateRowSeqs(_)
GateRowSeqs(n) ==
    IF n = 0 THEN {<<>>}
    ELSE {<<r>> \o q : r \in GateRowKinds, q \in GateRowSeqs(n - 1)}

\* The detected tables: table.extract() returns one of the grids or raises
GateTables ==
    {[data |-> d, bbox |-> <<1, 2, 3, 4>>, extract_raises |-> FALSE] :
        d \in UNION {GateRowSeqs(n) : n \in 0..MaxGateRows}}
    \cup {[data |-> <<>>, bbox |-> <<1, 2, 3, 4>>, extract_raises |-> TRUE]}

GateInit ==
    /\ in_table \in GateTables
    /\ out_normalized_data = <<>>
    /\ table_markdown = <<>>
    /\ out_tables = <<>>
    /\ cleaned_data = <<>>
    /\ valid_result = FALSE
    /\ pc = "gate_call"
    /\ in_data = <<>>
    /\ sc_lines = <<>> /\ sc_i = 1 /\ sc_candidates = <<>>
    /\ in_text = <<>>
    /\ in_page = [blocks |-> <<>>] /\ in_tables_on_page = <<>> /\ out_text_blocks = <<>>
    /\ in_page_num = 0 /\ in_text_blocks = <<>> /\ in_tables = <<>>
    /\ out_page_content = <<>>
    /\ bbox1 = <<>> /\ bbox2 = <<>> /\ overlap_threshold = <<1, 2>>
    /\ overlap_result = FALSE
    /\ STOPWORDS = {}
    /\ MainIdle

gateFrame == <<pdf, STOPWORDS, requestVars, parseVars, exc, bboxVars, in_text, in_page, in_tables_on_page,
               out_text_blocks, in_page_num, in_text_blocks, in_tables,
               out_page_content, in_table, in_data, sc_lines, sc_i, sc_candidates>>

\* Lines 130-147: table.extract(), the row gate of line 132, the cleaning of
\* the rows and the row gate of line 147. An exception of table.extract() is
\* caught at line 176 and printed at line 177.
GateClean ==
    /\ pc = "gate_call"
    /\ IF in_table.extract_raises
       THEN /\ log' = log \cup {"Table processing error on page N"}
            /\ pc' = "gate_done"
            /\ UNCHANGED cleaned_data
       ELSE IF ~(Truthy(in_table.data) /\ Len(in_table.data) >= 2)
       THEN /\ pc' = "gate_done"
            /\ UNCHANGED <<cleaned_data, log>>
       ELSE /\ cleaned_data' = clean_table_data(in_table.data)
            /\ pc' = IF Len(cleaned_data') >= 2 THEN "gate_validate" ELSE "gate_done"
            /\ UNCHANGED log
    /\ UNCHANGED <<valid_result, out_normalized_data, table_markdown, out_tables>>
    /\ UNCHANGED gateFrame

\* Lines 149-150: the validator decides; a rejected grid is skipped
GateValidate ==
    /\ pc = "gate_validate"
    /\ valid_result' = _is_valid_table(cleaned_data)
    /\ pc' = IF valid_result' THEN "gate_normalize" ELSE "gate_done"
    /\ UNCHANGED <<cleaned_data, out_normalized_data, table_markdown, out_tables, log>>
    /\ UNCHANGED gateFrame

\* Lines 153-158: row.append("") extends the row objects of cleaned_data
\* themselves; normalized_data receives the slices row[:max_cols] of the
\* extended rows
GateNormalize ==
    /\ pc = "gate_normalize"
    /\ cleaned_data' = normalize_rows(cleaned_data)
    /\ out_normalized_data' = normalize_rows(cleaned_data)
    /\ pc' = "gate_render"
    /\ UNCHANGED <<valid_result, table_markdown, out_tables, log>>
    /\ UNCHANGED gateFrame

\* Line 164
GateRender ==
    /\ pc = "gate_render"
    /\ table_markdown' = _create_clean_markdown_table(out_normalized_data)
    /\ pc' = "gate_emit"
    /\ UNCHANGED <<cleaned_data, valid_result, out_normalized_data, out_tables, log>>
    /\ UNCHANGED gateFrame

\* Lines 166-174: the dict is appended to tables (max_cols of line 153 is the
\* length of the rows of normalized_data)
GateEmit ==
    /\ pc = "gate_emit"
    /\ out_tables' = out_tables \o
            <<[content |-> table_markdown,
               type |-> "table",
               bbox |-> in_table.bbox,
               y_position |-> IF Truthy(in_table.bbox) THEN in_table.bbox[2] ELSE 0,
               rows |-> Len(out_normalized_data),
               cols |-> max_cols_of(out_normalized_data),
               raw_data |-> out_normalized_data]>>
    /\ pc' = "gate_done"
    /\ UNCHANGED <<cleaned_data, valid_result, out_normalized_data, table_markdown, log>>
    /\ UNCHANGED gateFrame

GateNext == GateClean \/ GateValidate \/ GateNormalize \/ GateRender \/ GateEmit

SpecGate == GateInit /\ [][GateNext]_vars

\* The step-wise run appends what tables_of_candidate gives for the table
GateAgreesWithFunction ==
    pc = "gate_done" =>
        /\ out_tables = tables_of_candidate(in_table)
        /\ log = table_warnings_of([tables |-> <<in_table>>])

\* The rows of cleaned_data are as long after the step as before
RowLengthsKept ==
    /\ Len(cleaned_data') = Len(cleaned_data)
    /\ \A r \in 1..Len(cleaned_data) : Len(cleaned_data'[r]) = Len(cleaned_data[r])

\* C25: validation and normalization never mutate a grid in place:
\* _is_valid_table leaves its argument unchanged, and padding ragged rows
\* produces a new normalized grid while the rows of the validated grid keep
\* their original lengths.
C25_ValidatedGridIsNeverMutated ==
    [][(pc \in {"gate_validate", "gate_normalize"}) => RowLengthsKept]_vars

\* The part of C25 about the validator alone: a step of _is_valid_table
\* leaves its argument as it was
ValidatorLeavesGridUnchanged ==
    [][pc = "gate_validate" => cleaned_data' = cleaned_data]_vars

\* The grid the validator saw for the table: the cleaned rows of lines 134-145
ValidatedGrid == clean_table_data(in_table.data)

\* The table has been emitted
TableEmitted == pc = "gate_done" /\ out_tables # <<>>

\* Number of cells of a rendered line whose cells contain no bar: one fewer
\* than its bars
RenderedCellCount(line) == Cardinality({i \in 1..Len(line) : line[i] = "|"}) - 1

\* row followed by empty cells up to n cells
RightPadded(row, n) == row \o Rep(<<>>, n - Len(row))

\* Some row of the grid is shorter than its longest row
IsRagged(grid) == \E r \in 1..Len(grid) : Len(grid[r]) < max_cols_of(grid)

\* C26: rendering a ragged grid right-pads every row with empty cells to the
\* maximum column count, so in the rendered text the header row, the
\* separator row and every data row have the same number of cells, equal to
\* the longest row of the input grid.
C26_RenderedRowsHaveWidestRowCellCount ==
    TableEmitted =>
        LET grid == ValidatedGrid
            widest == max_cols_of(grid)
            rendered == splitlines(out_tables[1].content)
        IN  /\ Len(out_tables[1].raw_data) = Len(grid)
            /\ \A r \in 1..Len(grid) :
                  out_tables[1].raw_data[r] = RightPadded(grid[r], widest)
            /\ Len(rendered) = Len(grid) + 1
            /\ \A k \in 1..Len(rendered) : RenderedCellCount(rendered[k]) = widest

\* A table whose header row and a data row were shorter than the longest row
\* has been emitted
C26_Witness ==
    /\ TableEmitted
    /\ IsRagged(ValidatedGrid)
    /\ Len(ValidatedGrid[1]) < max_cols_of(ValidatedGrid)
    /\ \E r \in 2..Len(ValidatedGrid) : Len(ValidatedGrid[r]) < max_cols_of(ValidatedGrid)

\* The steps after an accepting validation
PastValidation == pc \in {"gate_normalize", "gate_render", "gate_emit"}

\* C28: every table element emitted by extract_tables_with_pdfplumber has
\* rows >= 3 and cols >= 2, all rows of its raw_data have length exactly cols,
\* and rows equals the number of raw_data rows; a candidate with exactly 2
\* cleaned rows passes the caller's row-count gate but is never emitted.
C28_EmittedTablesAreAtLeastThreeByTwo ==
    /\ \A k \in 1..Len(out_tables) :
          /\ out_tables[k].rows >= 3
          /\ out_tables[k].cols >= 2
          /\ \A r \in 1..Len(out_tables[k].raw_data) :
                Len(out_tables[k].raw_data[r]) = out_tables[k].cols
          /\ out_tables[k].rows = Len(out_tables[k].raw_data)
    /\ Len(ValidatedGrid) = 2 =>
          /\ pc = "gate_call" \/ cleaned_data = ValidatedGrid
          /\ pc # "gate_call" => pc \in {"gate_validate", "gate_done"}
          /\ ~PastValidation
          /\ out_tables = <<>>

\* A candidate of three raw rows, two of them left by the cleaning, went
\* through the gate of line 147 to the validator, which rejected it
C28_Witness ==
    /\ pc = "gate_done"
    /\ Len(in_table.data) = 3
    /\ Len(cleaned_data) = 2
    /\ cleaned_data = ValidatedGrid
    /\ \A r \in 1..2 : Len(cleaned_data[r]) = 2
    /\ ~valid_result
    /\ out_tables = <<>>

\* A table of exactly three rows and two columns has been emitted
SmallestTableEmitted ==
    /\ TableEmitted
    /\ out_tables[1].rows = 3
    /\ out_tables[1].cols = 2

(***************************************************************************)
(* The metadata of a successful result of parse_document_hybrid            *)
(***************************************************************************)

\* parse_document_hybrid returned the dict of lines 474-488
ParseSucceeded ==
    ParseReturned /\ result.parsing_method = "hybrid_pymupdf_pdfplumber"

\* C29: in every successful result of parse_document_hybrid,
\* metadata.total_elements equals metadata.text_elements +
\* metadata.table_elements, pages_processed equals total_pages, and
\* characters_extracted is never smaller than the length of the returned
\* content.
C29_MetadataCountsAreConsistent ==
    ParseSucceeded =>
        /\ result.metadata.total_elements =
              result.metadata.text_elements + result.metadata.table_elements
        /\ result.metadata.pages_processed = result.total_pages
        /\ result.metadata.characters_extracted >= Len(result.content)

(***************************************************************************)
(* _create_clean_markdown_table called on its own                          *)
(***************************************************************************)

\* Largest number of data rows of the enumerated grids
MaxDataRows == 2

\* Header rows: with a blank cell and a long one, of one cell, with a line
\* break inside a cell, with spaces around a cell, empty, and of three cells
HeaderRowKinds ==
    {<<<<" ">>, <<"a", "b", "c", "d">>>>,
     <<<<"x">>>>,
     <<<<"a", "\n", "b">>, <<"x">>>>,
     <<<<" ", "a", "b", " ">>, <<>>>>,
     <<>>,
     <<<<"a", " ", " ", "b">>, <<"x">>, <<>>>>}

\* Data rows: full, with a run of spaces in a cell, with a line break in a
\* cell, and empty
DataRowKinds ==
    {<<<<"x">>, <<"x">>>>,
     <<<<"a", " ", " ", "b">>>>,
     <<<<>>, <<"a", "\n", "b">>>>,
     <<>>}

RECURSIVE DataRowSeqs(_)
DataRowSeqs(n) ==
    IF n = 0 THEN {<<>>}
    ELSE {<<r>> \o q : r \in DataRowKinds, q \in DataRowSeqs(n - 1)}

\* The empty grid and every header row followed by up to MaxDataRows data rows
RenderGrids ==
    {<<>>} \cup
    {<<h>> \o q : h \in HeaderRowKinds,
                  q \in UNION {DataRowSeqs(n) : n \in 0..MaxDataRows}}

RenderInit ==
    /\ in_data \in RenderGrids
    /\ table_markdown = <<>>
    /\ pc = "markdown_call"
    /\ in_table = [data |-> <<>>, bbox |-> <<>>, extract_raises |-> FALSE]
    /\ out_normalized_data = <<>>
    /\ out_tables = <<>>
    /\ cleaned_data = <<>>
    /\ valid_result = FALSE
    /\ sc_lines = <<>> /\ sc_i = 1 /\ sc_candidates = <<>>
    /\ in_text = <<>>
    /\ in_page = [blocks |-> <<>>] /\ in_tables_on_page = <<>> /\ out_text_blocks = <<>>
    /\ in_page_num = 0 /\ in_text_blocks = <<>> /\ in_tables = <<>>
    /\ out_page_content = <<>>
    /\ bbox1 = <<>> /\ bbox2 = <<>> /\ overlap_threshold = <<1, 2>>
    /\ overlap_result = FALSE
    /\ STOPWORDS = {}
    /\ MainIdle

\* Lines 188-226
CreateMarkdownTable ==
    /\ pc = "markdown_call"
    /\ table_markdown' = _create_clean_markdown_table(in_data)
    /\ pc' = "markdown_return"
    /\ UNCHANGED <<in_data, in_table, out_normalized_data, out_tables, tableVars>>
    /\ UNCHANGED <<mainVars, bboxVars, in_text, in_page, in_tables_on_page,
                   out_text_blocks, in_page_num, in_text_blocks, in_tables,
                   out_page_content, sc_lines, sc_i, sc_candidates>>

RenderNext == CreateMarkdownTable

SpecRender == RenderInit /\ [][RenderNext]_vars

\* The positions of the bars of a rendered line
BarsOf(line) == {i \in 1..Len(line) : line[i] = "|"}

\* The cells of a rendered line whose cells contain no bar: the text between
\* consecutive bars, without the spaces around it
BarCells(line) ==
    [k \in 1..(Cardinality(BarsOf(line)) - 1) |->
        strip(SubSeq(line, KthOf(BarsOf(line), k) + 1, KthOf(BarsOf(line), k + 1) - 1))]

\* The label of header cell i (counted from 1): the cell without the spaces
\* around it, or Col_i when that is empty
HeaderLabel(grid, i) ==
    IF strip(grid[1][i]) = <<>>
    THEN <<"C", "o", "l", "_">> \o Decimal(i)
    ELSE strip(grid[1][i])

\* The text returned for in_data is the header line of labels, the separator
\* line of dashes and one line for each data row
RenderedAsHeaderSeparatorRows ==
    LET rendered == splitlines(table_markdown)
        width == Len(in_data[1])
    IN  /\ Len(rendered) = Len(in_data) + 1
        /\ width > 0 => Len(BarCells(rendered[1])) = width
        /\ width > 0 => Len(BarCells(rendered[2])) = width
        /\ \A i \in 1..width :
              /\ BarCells(rendered[1])[i] = HeaderLabel(in_data, i)
              /\ BarCells(rendered[2])[i] =
                    Rep("-", Max2(3, Len(HeaderLabel(in_data, i))))

====
